---- MODULE Spec2Model ----
(***************************************************************************)
(* The localStorage cache of mlb-homerun-hub (cache.js: getCached,         *)
(* setCache, clearCache, clearOldCache, cachedFetch, staleWhileRevalidate) *)
(* as a state machine over the browser's key-value store and a clock.      *)
(* Time is counted in hours: DEFAULT_TTL (60 * 60 * 1000 ms) is 1.         *)
(***************************************************************************)
EXTENDS Integers, Sequences, FiniteSets, TLC

\* ------------------------------------------------------------------ bounds
MaxTime == 2            \* Date.now() ranges over 0..MaxTime
MaxTTL == 1             \* ttl arguments range over 0..MaxTTL

\* --------------------------------------------------------------- constants
CACHE_PREFIX == "mlb_hr_hub_"
DEFAULT_TTL == 1

Keys == {"k1", "k2"}                 \* cache keys the callers use
OtherKeys == {"theme"}               \* a key of unrelated storage, same origin
TTLs == 0..MaxTTL

\* ------------------------------------------------------------ JS values
\* A value is null or an object with one JSON member a; f says that the object
\* also carries a member JSON.stringify omits (a function such as
\* statType.format, or a property set to undefined such as hr).
Null == [t |-> "null", a |-> 0, f |-> FALSE]
Obj(a, f) == [t |-> "object", a |-> a, f |-> f]
EmptyList == [t |-> "array", a |-> 0, f |-> FALSE]      \* the array []
JsonValues == {Null, EmptyList} \cup {Obj(a, FALSE) : a \in 0..(MaxTime + 1)}
Values == {Null, Obj(1, TRUE), Obj(2, FALSE)}      \* what callers and fetchFn pass

\* JSON.stringify of a value: members that are functions or undefined are left out.
JSONStringify(v) ==
    IF v.t = "null" THEN "null"
    ELSE IF v.t = "array" THEN "[]"
    ELSE "{\"a\":" \o ToString(v.a) \o "}"

CanParse(s) == \E v \in JsonValues : JSONStringify(v) = s

\* JSON.parse of a string JSON.stringify produced.
JSONParse(s) == CHOOSE v \in JsonValues : JSONStringify(v) = s

\* ------------------------------------------------------------ localStorage
\* What the store holds under a storage key: nothing, the string setCache wrote
\* (JSON of {data, timestamp, ttl}, data kept as its JSON text), or a string
\* that JSON.parse rejects.
NoItem == [kind |-> "none", data |-> "", timestamp |-> 0, ttl |-> 0]
Garbage == [kind |-> "garbage", data |-> "", timestamp |-> 0, ttl |-> 0]
ItemString(data, timestamp, ttl) ==
    [kind |-> "item", data |-> JSONStringify(data), timestamp |-> timestamp, ttl |-> ttl]

CacheKey(key) == CACHE_PREFIX \o key
StorageKeys == {CacheKey(k) : k \in Keys} \cup OtherKeys
StartsWith(s, p) == Len(s) >= Len(p) /\ SubSeq(s, 1, Len(p)) = p

\* The store is bounded: it holds all but one of the keys in play at a time.
Capacity(st) == Cardinality(DOMAIN st) - 1
Quota == Cardinality(StorageKeys) - 1
Used(st) == Cardinality({sk \in DOMAIN st : st[sk].kind # "none"})

removeItem(st, sk) == [st EXCEPT ![sk] = NoItem]

\* localStorage.setItem: fault is an error of the store itself (storage disabled,
\* SecurityError); a new key in a full store raises QuotaExceededError.
setItem(st, sk, raw, fault) ==
    IF fault # "none" THEN [store |-> st, error |-> fault]
    ELSE IF st[sk].kind = "none" /\ Used(st) >= Capacity(st)
         THEN [store |-> st, error |-> "QuotaExceededError"]
         ELSE [store |-> [st EXCEPT ![sk] = raw], error |-> "none"]

\* --------------------------------------------------------------- cache.js
\* getCached with the expiry test written now - timestamp >= ttl.
getCached_ExpiresAtTtl(st, key, t) ==
    LET cacheKey == CacheKey(key)
        item == st[cacheKey]
    IN  IF item.kind # "item" THEN [result |-> Null, store |-> st, threw |-> FALSE]
        ELSE IF t - item.timestamp >= item.ttl
             THEN [result |-> Null, store |-> removeItem(st, cacheKey), threw |-> FALSE]
             ELSE [result |-> JSONParse(item.data), store |-> st, threw |-> FALSE]

\* getCached that restarts the lifetime of an entry it returns.
getCached_Touches(st, key, t) ==
    LET cacheKey == CacheKey(key)
        item == st[cacheKey]
    IN  IF item.kind = "none" THEN [result |-> Null, store |-> st, threw |-> FALSE]
        ELSE IF item.kind = "garbage" \/ ~CanParse(item.data)
             THEN [result |-> Null, store |-> st, threw |-> FALSE]
        ELSE IF t - item.timestamp > item.ttl
             THEN [result |-> Null, store |-> removeItem(st, cacheKey), threw |-> FALSE]
             ELSE [result |-> JSONParse(item.data),
                   store |-> [st EXCEPT ![cacheKey].timestamp = t], threw |-> FALSE]

\* getCached(key) at time t: the value returned and the store it leaves.
\* A missing string is a miss; a string JSON.parse rejects throws inside the
\* try and the catch returns null; an entry with now - timestamp > ttl is
\* removed and is a miss; otherwise the parsed data is returned.
getCached(st, key, t) ==
    LET cacheKey == CacheKey(key)
        item == st[cacheKey]
    IN  IF item.kind = "none" THEN [result |-> Null, store |-> st, threw |-> FALSE]
        ELSE IF item.kind = "garbage" \/ ~CanParse(item.data)
             THEN [result |-> Null, store |-> st, threw |-> FALSE]
        ELSE IF t - item.timestamp > item.ttl
             THEN [result |-> Null, store |-> removeItem(st, cacheKey), threw |-> FALSE]
             ELSE [result |-> JSONParse(item.data), store |-> st, threw |-> FALSE]

\* clearCache that removes every key of localStorage.
clearCache_AllKeys(st) ==
    [sk \in DOMAIN st |-> NoItem]

\* clearCache(): every key that starts with the prefix is removed.
clearCache(st) ==
    [sk \in DOMAIN st |->
        IF StartsWith(sk, CACHE_PREFIX) THEN NoItem ELSE st[sk]]

\* clearOldCache that removes an entry once now - timestamp reaches ttl.
clearOldCache_ExpiresAtTtl(st, t) ==
    [sk \in DOMAIN st |->
        IF ~StartsWith(sk, CACHE_PREFIX) THEN st[sk]
        ELSE IF st[sk].kind = "garbage" THEN NoItem
        ELSE IF st[sk].kind = "item" /\ t - st[sk].timestamp >= st[sk].ttl THEN NoItem
        ELSE st[sk]]

\* clearOldCache() at time t: of the keys that start with the prefix, the
\* expired entries and the strings JSON.parse rejects are removed.
clearOldCache(st, t) ==
    [sk \in DOMAIN st |->
        IF ~StartsWith(sk, CACHE_PREFIX) THEN st[sk]
        ELSE IF st[sk].kind = "garbage" THEN NoItem
        ELSE IF st[sk].kind = "item" /\ t - st[sk].timestamp > st[sk].ttl THEN NoItem
        ELSE st[sk]]

\* The names a statement of setCache's catch block can read: the parameters
\* and the caught error. cacheKey and item are const declarations of the try
\* block (lines 44-45) and are out of scope in the catch block.
CatchBlockScope == {"key", "data", "ttl", "error"}

\* The retry of line 60, run on the swept store: its arguments cacheKey and
\* item are evaluated before setItem is called, and reading a name that is
\* not in scope throws a ReferenceError.
retrySetItem(swept, key, data, ttl, t) ==
    IF {"cacheKey", "item"} \subseteq CatchBlockScope
    THEN setItem(swept, CacheKey(key), ItemString(data, t, ttl), "none")
    ELSE [store |-> swept, error |-> "ReferenceError"]

\* setCache with the retry outside any try: what the retry throws escapes.
setCache_RetryUnguarded(st, key, data, ttl, t, fault) ==
    LET first == setItem(st, CacheKey(key), ItemString(data, t, ttl), fault)
        retry == retrySetItem(clearOldCache(st, t), key, data, ttl, t)
    IN  IF first.error = "none"
        THEN [store |-> first.store, error |-> "none", retryError |-> "skipped",
              threw |-> FALSE]
        ELSE IF first.error = "QuotaExceededError"
        THEN [store |-> retry.store, error |-> first.error,
              retryError |-> retry.error, threw |-> retry.error # "none"]
        ELSE [store |-> st, error |-> first.error, retryError |-> "skipped",
              threw |-> FALSE]

\* setCache(key, data, ttl) at time t. error is what the first setItem threw,
\* retryError what the retry threw ("skipped" when there was no retry); both
\* catch blocks swallow what they catch, so nothing is thrown to the caller.
setCache(st, key, data, ttl, t, fault) ==
    LET first == setItem(st, CacheKey(key), ItemString(data, t, ttl), fault)
    IN  IF first.error = "none"
        THEN [store |-> first.store, error |-> "none", retryError |-> "skipped",
              threw |-> FALSE]
        ELSE IF first.error = "QuotaExceededError"
        THEN LET retry == retrySetItem(clearOldCache(st, t), key, data, ttl, t)
             IN  [store |-> retry.store, error |-> first.error,
                  retryError |-> retry.error, threw |-> FALSE]
        ELSE [store |-> st, error |-> first.error, retryError |-> "skipped",
              threw |-> FALSE]

\* cachedFetch that calls fetchFn whatever the cache read returned.
cachedFetchStart_AlwaysFetches(st, key, t) ==
    LET g == getCached(st, key, t)
    IN  [store |-> g.store, cached |-> g.result, invoked |-> TRUE]

\* cachedFetch(key, fetchFn, ttl) up to its await: the cache is read, and
\* fetchFn is called only when the read returned null.
cachedFetchStart(st, key, t) ==
    LET g == getCached(st, key, t)
    IN  [store |-> g.store, cached |-> g.result, invoked |-> g.result = Null]

\* cachedFetch that stores the result with DEFAULT_TTL, not the ttl given.
cachedFetchSettle_DefaultTtl(st, key, ttl, t, outcome, data, fault) ==
    IF outcome = "rejected"
    THEN [store |-> st, ret |-> "rejected", retval |-> Null, thrown |-> "FetchError",
          error |-> "skipped"]
    ELSE LET w == setCache(st, key, data, DEFAULT_TTL, t, fault)
         IN  [store |-> w.store, ret |-> "returned", retval |-> data,
              thrown |-> "none", error |-> w.error]

\* cachedFetch that catches a rejected fetchFn(), and stores and returns an
\* empty result in its place.
cachedFetchSettle_CachesFailure(st, key, ttl, t, outcome, data, fault) ==
    LET v == IF outcome = "rejected" THEN Obj(2, FALSE) ELSE data
        w == setCache(st, key, v, ttl, t, fault)
    IN  [store |-> w.store, ret |-> "returned", retval |-> v,
         thrown |-> "none", error |-> w.error]

\* cachedFetch that reads the cache again after the await and, when another
\* call has stored an entry meanwhile, returns that and stores nothing.
cachedFetchSettle_FirstWriteWins(st, key, ttl, t, outcome, data, fault) ==
    IF outcome = "rejected"
    THEN [store |-> st, ret |-> "rejected", retval |-> Null, thrown |-> "FetchError",
          error |-> "skipped"]
    ELSE LET g == getCached(st, key, t)
             w == setCache(st, key, data, ttl, t, fault)
         IN  IF g.result # Null
             THEN [store |-> g.store, ret |-> "returned", retval |-> g.result,
                   thrown |-> "none", error |-> "none"]
             ELSE [store |-> w.store, ret |-> "returned", retval |-> data,
                   thrown |-> "none", error |-> w.error]

\* cachedFetch after the await. A rejected fetchFn() rejects the call with
\* the same error (there is no try around the await); a resolved one is
\* passed to setCache and returned, and an error thrown by setCache would
\* reject the call.
cachedFetchSettle(st, key, ttl, t, outcome, data, fault) ==
    IF outcome = "rejected"
    THEN [store |-> st, ret |-> "rejected", retval |-> Null, thrown |-> "FetchError",
          error |-> "skipped"]
    ELSE LET w == setCache(st, key, data, ttl, t, fault)
         IN  IF w.threw
             THEN [store |-> w.store, ret |-> "rejected", retval |-> Null,
                   thrown |-> w.error, error |-> w.error]
             ELSE [store |-> w.store, ret |-> "returned", retval |-> data,
                   thrown |-> "none", error |-> w.error]

\* staleWhileRevalidate that awaits fetchFn() before it returns.
staleWhileRevalidateStart_Awaits(st, key, t) ==
    LET g == getCached(st, key, t)
    IN  [store |-> g.store, cached |-> g.result, invoked |-> TRUE,
         ret |-> "none", retval |-> Null]

\* staleWhileRevalidate(key, fetchFn, onUpdate, ttl) up to its return: the
\* cache is read, fetchFn is called and its promise given the then and catch
\* handlers, and the value read is returned without awaiting it.
staleWhileRevalidateStart(st, key, t) ==
    LET g == getCached(st, key, t)
    IN  [store |-> g.store, cached |-> g.result, invoked |-> TRUE,
         ret |-> "returned", retval |-> g.result]

\* The comparison made on the values themselves, not on their JSON text.
changed_ByValue(cached, freshData) ==
    cached = Null \/ cached # freshData

\* The comparison of line 152 that decides whether onUpdate is called.
changed(cached, freshData) ==
    cached = Null \/ JSONStringify(cached) # JSONStringify(freshData)

\* staleWhileRevalidate whose catch handler also drops the cached entry.
staleWhileRevalidateSettle_DropsOnError(st, key, ttl, t, cached, outcome, freshData, fault) ==
    IF outcome = "rejected"
    THEN [store |-> removeItem(st, CacheKey(key)), updates |-> 0, updateArg |-> Null,
          error |-> "skipped"]
    ELSE LET w == setCache(st, key, freshData, ttl, t, fault)
         IN  [store |-> w.store,
              updates |-> IF changed(cached, freshData) THEN 1 ELSE 0,
              updateArg |-> IF changed(cached, freshData) THEN freshData ELSE Null,
              error |-> w.error]

\* staleWhileRevalidate whose then handler writes the fresh data only when it
\* differs from the value read at the call.
staleWhileRevalidateSettle_WritesIfChanged(st, key, ttl, t, cached, outcome, freshData, fault) ==
    IF outcome = "rejected"
    THEN [store |-> st, updates |-> 0, updateArg |-> Null, error |-> "skipped"]
    ELSE IF ~changed(cached, freshData)
    THEN [store |-> st, updates |-> 0, updateArg |-> Null, error |-> "none"]
    ELSE LET w == setCache(st, key, freshData, ttl, t, fault)
         IN  [store |-> w.store, updates |-> 1, updateArg |-> freshData, error |-> w.error]

\* The handlers staleWhileRevalidate left on fetchFn()'s promise. then: the
\* fresh data is passed to setCache, and onUpdate is called with it when it
\* differs from the value read at the call. catch: the error is logged.
staleWhileRevalidateSettle(st, key, ttl, t, cached, outcome, freshData, fault) ==
    IF outcome = "rejected"
    THEN [store |-> st, updates |-> 0, updateArg |-> Null, error |-> "skipped"]
    ELSE LET w == setCache(st, key, freshData, ttl, t, fault)
         IN  IF w.threw
             THEN [store |-> w.store, updates |-> 0, updateArg |-> Null,
                   error |-> w.error]
             ELSE [store |-> w.store,
                   updates |-> IF changed(cached, freshData) THEN 1 ELSE 0,
                   updateArg |-> IF changed(cached, freshData) THEN freshData ELSE Null,
                   error |-> w.error]

\* ------------------------------------------------------------------ state
VARIABLES
    store,      \* localStorage: storage key -> what it holds
    now,        \* Date.now()
    last,       \* the getCached or setCache call that was the latest step, if any
    calls,      \* the cachedFetch and staleWhileRevalidate calls made so far
    lastDone,   \* the call that settled last, while only time has passed since
    api,        \* the call of the API layer (mlbApi.js) in progress, if any
    app         \* the App component (App.jsx): its state and its effects' runs

vars == <<store, now, last, calls, lastDone, api, app>>

Faults == {"none", "SecurityError"}
CallIds == {1, 2}     \* two calls of a wrapper: one follows or overlaps the other

\* last: op and key name the call; data is the value getCached returned or
\* setCache was given; before is what the store held under the key when a
\* getCached call began; error and retryError are what the two setItem calls of
\* setCache threw; room says that the store, swept of its expired entries,
\* had room for one more key; threw says that the call threw to its caller;
\* removed holds, for a clearCache or clearOldCache call, each storage key the
\* call removed, with the kind of entry it held.
NoCall == [op |-> "none", key |-> "", data |-> Null, ttl |-> 0, before |-> NoItem,
           error |-> "none", retryError |-> "skipped", room |-> FALSE, threw |-> FALSE,
           removed |-> {}]

\* A call of a wrapper. pc: "idle" (not made), "pending" (fetchFn() called and
\* not settled) or "done". cached: what getCached returned at the call.
\* invoked: the number of fetchFn calls. outcome, fresh: how fetchFn()
\* settled. ret, retval, thrown: what the caller's promise settled with.
\* updates, updateArg: the onUpdate calls. error: what setCache's first
\* setItem threw ("skipped": setCache was not called).
\* follows, within: the call began right after call follows had settled,
\* within that call's ttl; raced: another call stored an entry under the
\* key while this one was pending.
Idle == [op |-> "none", key |-> "", ttl |-> 0, pc |-> "idle", cached |-> Null,
         invoked |-> 0, outcome |-> "none", fresh |-> Null,
         ret |-> "none", retval |-> Null, thrown |-> "none",
         updates |-> 0, updateArg |-> Null, error |-> "skipped",
         follows |-> 0, within |-> FALSE, raced |-> FALSE]

NoDone == [id |-> 0, at |-> 0]

\* The entries of store st that store after no longer holds.
Removed(st, after) ==
    {<<sk, st[sk].kind>> : sk \in {k \in DOMAIN st : st[k] # NoItem /\ after[k] = NoItem}}

EmptyStore == [sk \in StorageKeys |-> NoItem]

NoApi == [op |-> "none"]
NoApp == [activeTab |-> "historical"]

\* ------------------------------------------------- the store and its callers
Init ==
    /\ store = EmptyStore
    /\ now = 0
    /\ last = NoCall
    /\ calls = [c \in CallIds |-> Idle]
    /\ lastDone = NoDone
    /\ api = NoApi
    /\ app = NoApp

\* A caller reads key: getCached(key).
GetCachedOp(key) ==
    LET g == getCached(store, key, now)
    IN  /\ store' = g.store
        /\ last' = [NoCall EXCEPT !.op = "getCached", !.key = key, !.data = g.result,
                                  !.before = store[CacheKey(key)], !.threw = g.threw]
        /\ UNCHANGED <<now, calls, lastDone, api, app>>

\* A caller writes key: setCache(key, data, ttl).
SetCacheOp(key, data, ttl, fault) ==
    LET w == setCache(store, key, data, ttl, now, fault)
    IN  /\ store' = w.store
        /\ last' = [op |-> "setCache", key |-> key, data |-> data, ttl |-> ttl,
                    before |-> NoItem, error |-> w.error,
                    retryError |-> w.retryError,
                    room |-> Used(clearOldCache(store, now)) < Quota,
                    threw |-> w.threw, removed |-> {}]
        /\ UNCHANGED <<now, calls, lastDone, api, app>>

ClearCacheOp ==
    /\ store' = clearCache(store)
    /\ last' = [NoCall EXCEPT !.op = "clearCache",
                              !.removed = Removed(store, clearCache(store))]
    /\ UNCHANGED <<now, calls, lastDone, api, app>>

ClearOldCacheOp ==
    /\ store' = clearOldCache(store, now)
    /\ last' = [NoCall EXCEPT !.op = "clearOldCache",
                              !.removed = Removed(store, clearOldCache(store, now))]
    /\ UNCHANGED <<now, calls, lastDone, api, app>>

\* Other code of the same origin (or an older build) writes a string of its
\* own under a storage key, or removes one.
ExternalWrite(sk) ==
    /\ setItem(store, sk, Garbage, "none").error = "none"
    /\ store' = setItem(store, sk, Garbage, "none").store
    /\ last' = NoCall
    /\ lastDone' = NoDone
    /\ UNCHANGED <<now, calls, api, app>>

ExternalRemove(sk) ==
    /\ store[sk].kind # "none"
    /\ store' = removeItem(store, sk)
    /\ last' = NoCall
    /\ lastDone' = NoDone
    /\ UNCHANGED <<now, calls, api, app>>

Tick ==
    /\ now < MaxTime
    /\ now' = now + 1
    /\ last' = NoCall
    /\ UNCHANGED <<store, calls, lastDone, api, app>>

NextStore ==
    \/ \E key \in Keys : GetCachedOp(key)
    \/ \E key \in Keys, data \in Values, ttl \in TTLs, fault \in Faults :
            SetCacheOp(key, data, ttl, fault)
    \/ ClearCacheOp
    \/ ClearOldCacheOp
    \/ \E sk \in StorageKeys : ExternalWrite(sk)
    \/ \E sk \in StorageKeys : ExternalRemove(sk)
    \/ Tick

SpecStore == Init /\ [][NextStore]_vars

\* ---------------------------------------------------- the wrappers' callers
\* Calls are numbered in the order they are made.
CanBegin(c) ==
    calls[c].pc = "idle" /\ (IF c = 1 THEN TRUE ELSE calls[c - 1].pc # "idle")

\* The call that begins now, on key: which call it follows, and how closely.
Begun(op, key, ttl) ==
    LET f == IF lastDone.id # 0 /\ calls[lastDone.id].key = key THEN lastDone.id ELSE 0
    IN  [Idle EXCEPT !.op = op, !.key = key, !.ttl = ttl, !.follows = f,
                     !.within = (f # 0 /\ now - lastDone.at <= calls[lastDone.id].ttl)]

\* Call c has stored an entry under key: the other calls pending on it raced.
Raced(cs, c, key, stored) ==
    [d \in CallIds |->
        IF stored /\ d # c /\ cs[d].pc = "pending" /\ cs[d].key = key
        THEN [cs[d] EXCEPT !.raced = TRUE] ELSE cs[d]]

\* cachedFetch(key, fetchFn, ttl) is called and runs to its return (a hit)
\* or to its await (a miss).
CachedFetchCall(c, key, ttl) ==
    LET s == cachedFetchStart(store, key, now)
        b == Begun("cachedFetch", key, ttl)
    IN  /\ CanBegin(c)
        /\ store' = s.store
        /\ calls' = [calls EXCEPT ![c] =
              IF s.invoked
              THEN [b EXCEPT !.pc = "pending", !.cached = s.cached, !.invoked = 1]
              ELSE [b EXCEPT !.pc = "done", !.cached = s.cached,
                             !.ret = "returned", !.retval = s.cached]]
        /\ lastDone' = IF s.invoked THEN NoDone ELSE [id |-> c, at |-> now]
        /\ UNCHANGED <<now, last, api, app>>

\* fetchFn() of a pending cachedFetch resolves with data.
CachedFetchResolve(c, data, fault) ==
    LET k == calls[c].key
        r == cachedFetchSettle(store, k, calls[c].ttl, now, "resolved", data, fault)
    IN  /\ calls[c].op = "cachedFetch" /\ calls[c].pc = "pending"
        /\ store' = r.store
        /\ calls' = [Raced(calls, c, k, r.error = "none") EXCEPT ![c] =
              [calls[c] EXCEPT !.pc = "done", !.outcome = "resolved", !.fresh = data,
                               !.ret = r.ret, !.retval = r.retval, !.thrown = r.thrown,
                               !.error = r.error]]
        /\ lastDone' = [id |-> c, at |-> now]
        /\ UNCHANGED <<now, last, api, app>>

\* fetchFn() of a pending cachedFetch rejects.
CachedFetchReject(c) ==
    LET k == calls[c].key
        r == cachedFetchSettle(store, k, calls[c].ttl, now, "rejected", Null, "none")
    IN  /\ calls[c].op = "cachedFetch" /\ calls[c].pc = "pending"
        /\ store' = r.store
        /\ calls' = [calls EXCEPT ![c] =
              [calls[c] EXCEPT !.pc = "done", !.outcome = "rejected",
                               !.ret = r.ret, !.retval = r.retval, !.thrown = r.thrown,
                               !.error = r.error]]
        /\ lastDone' = [id |-> c, at |-> now]
        /\ UNCHANGED <<now, last, api, app>>

\* staleWhileRevalidate(key, fetchFn, onUpdate, ttl) is called and returns.
StaleWhileRevalidateCall(c, key, ttl) ==
    LET s == staleWhileRevalidateStart(store, key, now)
        b == Begun("staleWhileRevalidate", key, ttl)
    IN  /\ CanBegin(c)
        /\ store' = s.store
        /\ calls' = [calls EXCEPT ![c] =
              [b EXCEPT !.pc = "pending", !.cached = s.cached,
                        !.invoked = IF s.invoked THEN 1 ELSE 0,
                        !.ret = s.ret, !.retval = s.retval]]
        /\ lastDone' = NoDone
        /\ UNCHANGED <<now, last, api, app>>

\* fetchFn() of a staleWhileRevalidate call resolves with freshData: the then
\* handler runs.
StaleWhileRevalidateResolve(c, freshData, fault) ==
    LET k == calls[c].key
        r == staleWhileRevalidateSettle(store, k, calls[c].ttl, now, calls[c].cached,
                                        "resolved", freshData, fault)
    IN  /\ calls[c].op = "staleWhileRevalidate" /\ calls[c].pc = "pending"
        /\ store' = r.store
        /\ calls' = [Raced(calls, c, k, r.error = "none") EXCEPT ![c] =
              [calls[c] EXCEPT !.pc = "done", !.outcome = "resolved", !.fresh = freshData,
                               !.updates = r.updates, !.updateArg = r.updateArg,
                               !.error = r.error]]
        /\ lastDone' = [id |-> c, at |-> now]
        /\ UNCHANGED <<now, last, api, app>>

\* fetchFn() of a staleWhileRevalidate call rejects: the catch handler runs.
StaleWhileRevalidateReject(c) ==
    LET k == calls[c].key
        r == staleWhileRevalidateSettle(store, k, calls[c].ttl, now, calls[c].cached,
                                        "rejected", Null, "none")
    IN  /\ calls[c].op = "staleWhileRevalidate" /\ calls[c].pc = "pending"
        /\ store' = r.store
        /\ calls' = [calls EXCEPT ![c] =
              [calls[c] EXCEPT !.pc = "done", !.outcome = "rejected",
                               !.updates = r.updates, !.updateArg = r.updateArg,
                               !.error = r.error]]
        /\ lastDone' = [id |-> c, at |-> now]
        /\ UNCHANGED <<now, last, api, app>>

\* A fetchFn() that never settles leaves its call pending: no step.
\* The callers of cachedFetch, beside unrelated code that shares the store.
NextFetch ==
    \/ \E c \in CallIds, key \in Keys, ttl \in TTLs : CachedFetchCall(c, key, ttl)
    \/ \E c \in CallIds, data \in Values, fault \in Faults :
            CachedFetchResolve(c, data, fault)
    \/ \E c \in CallIds : CachedFetchReject(c)
    \/ \E sk \in OtherKeys : ExternalWrite(sk)
    \/ \E sk \in OtherKeys : ExternalRemove(sk)
    \/ Tick

SpecFetch == Init /\ [][NextFetch]_vars

\* The callers of staleWhileRevalidate, beside unrelated code.
NextSwr ==
    \/ \E c \in CallIds, key \in Keys, ttl \in TTLs : StaleWhileRevalidateCall(c, key, ttl)
    \/ \E c \in CallIds, freshData \in Values, fault \in Faults :
            StaleWhileRevalidateResolve(c, freshData, fault)
    \/ \E c \in CallIds : StaleWhileRevalidateReject(c)
    \/ \E sk \in OtherKeys : ExternalWrite(sk)
    \/ \E sk \in OtherKeys : ExternalRemove(sk)
    \/ Tick

SpecSwr == Init /\ [][NextSwr]_vars

\* ------------------------------------------------------------ claims: store
\* What a value is after JSON.stringify and JSON.parse.
RoundTrip(v) == JSONParse(JSONStringify(v))

\* The entry under key, written at time s with ttl, read at every time n from
\* s on: expected is returned and the store left alone while n - s <= ttl,
\* and after that the read is a miss that removes the entry.
ReadsBack(st, key, expected, ttl, s) ==
    \A n \in s..(MaxTime + 1) :
        LET g == getCached(st, key, n)
        IN  IF n - s <= ttl
            THEN g.result = expected /\ g.store = st
            ELSE g.result = Null /\ g.store[CacheKey(key)] = NoItem

\* A getCached call that found an entry of setCache returned its data up to
\* and including age ttl and left the store alone, and past that age returned
\* null and removed the entry.
GetAgreesWithEntry ==
    (last.op = "getCached" /\ last.before.kind = "item") =>
        IF now - last.before.timestamp <= last.before.ttl
        THEN /\ last.data = JSONParse(last.before.data)
             /\ store[CacheKey(last.key)] = last.before
        ELSE /\ last.data = Null
             /\ store[CacheKey(last.key)] = NoItem

\* C2 as stated: after setCache(k, v, t), getCached(k) returns v at every time
\* now with now - storedAt <= t (exactly t included), and at any later time it
\* returns null and the entry is removed from the store.
C2_AsClaimed ==
    last.op = "setCache" => ReadsBack(store, last.key, last.data, last.ttl, now)

\* C2, amended: after a setCache(k, v, t) whose store write succeeded,
\* getCached(k) returns JSON.parse(JSON.stringify(v)) at every time now with
\* now - storedAt <= t (exactly t included) and leaves the store unchanged; at
\* any later time it returns null and the entry is removed from the store.
C2_TtlAfterStoredWrite ==
    /\ (last.op = "setCache" /\ last.error = "none") =>
            /\ store[CacheKey(last.key)] = ItemString(last.data, now, last.ttl)
            /\ ReadsBack(store, last.key, RoundTrip(last.data), last.ttl, now)
    /\ GetAgreesWithEntry

\* C2 witness: a getCached call returned the data of an entry whose age is
\* exactly its ttl (a positive one), and the entry is still in the store.
C2_Witness ==
    /\ last.op = "getCached"
    /\ last.before.kind = "item"
    /\ last.before.ttl > 0
    /\ now - last.before.timestamp = last.before.ttl
    /\ last.data # Null
    /\ store[CacheKey(last.key)] = last.before

\* C8 as stated: getCached never throws; on a stored string that cannot be
\* deserialized it returns null and removes the string from the store.
C8_AsClaimed ==
    (last.op = "getCached" /\ last.before.kind = "garbage") =>
        /\ ~last.threw
        /\ last.data = Null
        /\ store[CacheKey(last.key)] = NoItem

\* C9 as stated: when the first write of setCache fails on the quota and the
\* sweep of the expired namespaced entries frees room, the retry stores the
\* entry, so that a getCached(k) that follows returns the value.
C9_AsClaimed ==
    (last.op = "setCache" /\ last.error = "QuotaExceededError" /\ last.room) =>
        /\ store[CacheKey(last.key)] = ItemString(last.data, now, last.ttl)
        /\ getCached(store, last.key, now).result = RoundTrip(last.data)

\* ------------------------------------------------------ claims: cachedFetch
IsFetch(c) == calls[c].op = "cachedFetch"
Miss(c) == IsFetch(c) /\ calls[c].cached = Null

\* C1: a cachedFetch call whose cache read returned a non-null value returns
\* that value and never calls fetchFn.
C1_HitNeverFetches ==
    \A c \in CallIds :
        (IsFetch(c) /\ calls[c].cached # Null) =>
            /\ calls[c].invoked = 0
            /\ calls[c].pc = "done"
            /\ calls[c].ret = "returned"
            /\ calls[c].retval = calls[c].cached

\* C1 witness: a cachedFetch call has returned the value it found cached.
C1_Witness ==
    \E c \in CallIds :
        IsFetch(c) /\ calls[c].cached # Null /\ calls[c].ret = "returned"

\* On a miss fetchFn is called once, and what it resolves with is returned.
MissFetchesOnce ==
    \A c \in CallIds :
        Miss(c) =>
            /\ calls[c].invoked = 1
            /\ calls[c].outcome = "resolved" =>
                    (calls[c].ret = "returned" /\ calls[c].retval = calls[c].fresh)

\* C3 as stated: on a miss cachedFetch calls fetchFn exactly once, stores what
\* it resolves with under the key with the given ttl and returns it, and a
\* cachedFetch on the key that follows at once, within ttl, is a hit that
\* returns the same value.
C3_AsClaimed ==
    /\ MissFetchesOnce
    /\ \A c \in CallIds :
        (Miss(c) /\ calls[c].outcome = "resolved") =>
            /\ lastDone.id = c =>
                    store[CacheKey(calls[c].key)] =
                        ItemString(calls[c].fresh, lastDone.at, calls[c].ttl)
            /\ \A b \in CallIds :
                    (IsFetch(b) /\ calls[b].follows = c /\ calls[b].within) =>
                        /\ calls[b].invoked = 0
                        /\ calls[b].ret = "returned"
                        /\ calls[b].retval = calls[c].fresh

\* C3, amended: on a miss cachedFetch calls fetchFn exactly once and returns
\* what it resolves with; when the store write of setCache succeeds, the
\* result is stored under the key with the given ttl, and a cachedFetch on
\* the key that follows at once, within ttl, is a hit that returns
\* JSON.parse(JSON.stringify(result)), unless the result is null, which reads
\* back as a miss.
C3_MissFetchesStoresAndHits ==
    /\ MissFetchesOnce
    /\ \A c \in CallIds :
        (Miss(c) /\ calls[c].outcome = "resolved" /\ calls[c].error = "none") =>
            /\ lastDone.id = c =>
                    store[CacheKey(calls[c].key)] =
                        ItemString(calls[c].fresh, lastDone.at, calls[c].ttl)
            /\ \A b \in CallIds :
                    (IsFetch(b) /\ calls[b].follows = c /\ calls[b].within) =>
                        IF calls[c].fresh = Null
                        THEN calls[b].cached = Null /\ calls[b].invoked = 1
                        ELSE /\ calls[b].invoked = 0
                             /\ calls[b].ret = "returned"
                             /\ calls[b].retval = RoundTrip(calls[c].fresh)

\* C3 witness: a miss stored its result with a positive ttl, and the call
\* that followed it, later but within that ttl, was a hit.
C3_Witness ==
    \E b, c \in CallIds :
        /\ Miss(c) /\ calls[c].outcome = "resolved" /\ calls[c].error = "none"
        /\ IsFetch(b) /\ calls[b].follows = c /\ calls[b].within
        /\ calls[b].invoked = 0
        /\ calls[b].retval = RoundTrip(calls[c].fresh)
        /\ store[CacheKey(calls[c].key)].timestamp < now

\* A rejected fetchFn() rejects the cachedFetch call with the same error.
RejectionPropagates ==
    \A c \in CallIds :
        (IsFetch(c) /\ calls[c].outcome = "rejected") =>
            (calls[c].ret = "rejected" /\ calls[c].thrown = "FetchError")

\* C4 as stated: when fetchFn rejects, the rejection reaches the caller of
\* cachedFetch, the cache is left without an entry for the key, and the next
\* cachedFetch on the key calls fetchFn again.
C4_AsClaimed ==
    /\ RejectionPropagates
    /\ \A c \in CallIds :
        (IsFetch(c) /\ calls[c].outcome = "rejected") =>
            /\ lastDone.id = c => getCached(store, calls[c].key, now).result = Null
            /\ \A b \in CallIds :
                    (IsFetch(b) /\ calls[b].follows = c) => calls[b].invoked = 1

\* C4, amended: when fetchFn rejects, the rejection reaches the caller of
\* cachedFetch and the call writes nothing to the store; unless another call
\* stored an entry under the key while this one was pending, the cache is
\* left without an entry for the key and the next cachedFetch on the key
\* calls fetchFn again.
C4_RejectionCachesNothing ==
    /\ []RejectionPropagates
    /\ [][\A c \in CallIds :
            (calls[c].pc = "pending" /\ calls'[c].outcome = "rejected")
                => store' = store]_vars
    /\ [](\A c \in CallIds :
            (IsFetch(c) /\ calls[c].outcome = "rejected" /\ ~calls[c].raced) =>
                /\ lastDone.id = c => getCached(store, calls[c].key, now).result = Null
                /\ \A b \in CallIds :
                        (IsFetch(b) /\ calls[b].follows = c) => calls[b].invoked = 1)

\* C4 witness: a cachedFetch call was rejected, and the call on its key that
\* followed called fetchFn again.
C4_Witness ==
    \E b, c \in CallIds :
        /\ IsFetch(c) /\ calls[c].outcome = "rejected" /\ calls[c].ret = "rejected"
        /\ IsFetch(b) /\ calls[b].follows = c /\ calls[b].invoked = 1

\* C10: setCache never throws, whatever its first setItem and its retry
\* throw, and a cachedFetch call whose fetchFn resolved returns the result
\* also when the write was dropped.
C10_WriteFailureNeverSurfaces ==
    /\ \A key \in Keys, data \in Values, ttl \in TTLs, fault \in Faults :
            ~setCache(store, key, data, ttl, now, fault).threw
    /\ \A c \in CallIds :
            (IsFetch(c) /\ calls[c].outcome = "resolved") =>
                /\ calls[c].ret = "returned"
                /\ calls[c].thrown = "none"
                /\ calls[c].retval = calls[c].fresh

\* C10 witness: the write of a cachedFetch call failed on the quota, nothing
\* is stored under its key, and the call returned the result.
C10_Witness ==
    \E c \in CallIds :
        /\ IsFetch(c) /\ calls[c].outcome = "resolved"
        /\ calls[c].error = "QuotaExceededError"
        /\ lastDone.id = c /\ store[CacheKey(calls[c].key)] = NoItem
        /\ calls[c].ret = "returned" /\ calls[c].retval = calls[c].fresh
        /\ calls[c].fresh # Null

\* --------------------------------------------- claims: staleWhileRevalidate
IsSwr(c) == calls[c].op = "staleWhileRevalidate"

\* C5: a staleWhileRevalidate call returns the value the cache read gave at
\* the call, while fetchFn() is pending (also for ever) and whether it later
\* resolves or rejects.
C5_ReturnsCachedAtOnce ==
    \A c \in CallIds :
        IsSwr(c) =>
            /\ calls[c].invoked = 1
            /\ calls[c].ret = "returned"
            /\ calls[c].retval = calls[c].cached
            /\ calls[c].thrown = "none"

\* C5 witness: a call has returned a cached value while its fetchFn() is
\* still pending.
C5_Witness ==
    \E c \in CallIds :
        /\ IsSwr(c) /\ calls[c].pc = "pending"
        /\ calls[c].ret = "returned" /\ calls[c].retval # Null

\* C6: when fetchFn() resolves with fresh data, onUpdate is called exactly
\* once, with the fresh data, if the value read at the call was null or its
\* JSON text differs from that of the fresh data, and is not called if the
\* two JSON texts are equal.
C6_OnUpdateIffChanged ==
    \A c \in CallIds :
        (IsSwr(c) /\ calls[c].outcome = "resolved") =>
            IF \/ calls[c].cached = Null
               \/ JSONStringify(calls[c].cached) # JSONStringify(calls[c].fresh)
            THEN calls[c].updates = 1 /\ calls[c].updateArg = calls[c].fresh
            ELSE calls[c].updates = 0

\* C6 witness: fresh data that is another value than the cached one but has
\* the same JSON text arrived, and onUpdate was not called.
C6_Witness ==
    \E c \in CallIds :
        /\ IsSwr(c) /\ calls[c].outcome = "resolved"
        /\ calls[c].cached # Null /\ calls[c].fresh # calls[c].cached
        /\ JSONStringify(calls[c].cached) = JSONStringify(calls[c].fresh)
        /\ calls[c].updates = 0

\* C7: when fetchFn() rejects, the caller of staleWhileRevalidate still holds
\* the value returned, onUpdate is not called, and the rejection leaves the
\* store, and with it what getCached returns for the key, as it was.
C7_RejectionSwallowed ==
    /\ [](\A c \in CallIds :
            (IsSwr(c) /\ calls[c].outcome = "rejected") =>
                /\ calls[c].ret = "returned"
                /\ calls[c].retval = calls[c].cached
                /\ calls[c].thrown = "none"
                /\ calls[c].updates = 0)
    /\ [][\A c \in CallIds :
            (calls[c].pc = "pending" /\ calls'[c].outcome = "rejected") =>
                /\ store' = store
                /\ getCached(store', calls[c].key, now').result =
                        getCached(store, calls[c].key, now).result]_vars

\* C7 witness: fetchFn() of a call that had returned a cached value rejected,
\* and getCached still returns that value.
C7_Witness ==
    \E c \in CallIds :
        /\ IsSwr(c) /\ calls[c].outcome = "rejected"
        /\ calls[c].cached # Null
        /\ lastDone.id = c
        /\ getCached(store, calls[c].key, now).result = calls[c].cached

\* --------------------------------------------- claims: clearOldCache, clearCache
Namespaced(sk) == StartsWith(sk, CACHE_PREFIX)
Expired(e, t) == e.kind = "item" /\ t - e.timestamp > e.ttl
Fresh(e, t) == e.kind = "item" /\ t - e.timestamp <= e.ttl

\* C11: a clearOldCache call removes every entry under a prefixed key with
\* now - timestamp > ttl, and leaves every entry under a prefixed key with
\* now - timestamp <= ttl, and every entry under a key without the prefix,
\* as it was.
C11_SweepRemovesExpiredOnly ==
    [][ClearOldCacheOp =>
        \A sk \in StorageKeys :
            /\ (Namespaced(sk) /\ Expired(store[sk], now)) => store'[sk] = NoItem
            /\ (Namespaced(sk) /\ Fresh(store[sk], now)) => store'[sk] = store[sk]
            /\ ~Namespaced(sk) => store'[sk] = store[sk]]_vars

\* C11 witness: a clearOldCache call removed an expired entry, and an entry
\* not yet expired is in the store after it.
C11_Witness ==
    /\ last.op = "clearOldCache"
    /\ \E sk \in StorageKeys : <<sk, "item">> \in last.removed
    /\ \E sk \in StorageKeys : Namespaced(sk) /\ Fresh(store[sk], now)

\* C12: a clearCache call removes every entry under a prefixed key, expired
\* or not, and leaves every entry under a key without the prefix as it was.
C12_ClearRemovesNamespaceOnly ==
    [][ClearCacheOp =>
        \A sk \in StorageKeys :
            IF Namespaced(sk) THEN store'[sk] = NoItem
            ELSE store'[sk] = store[sk]]_vars

\* C12 witness: a clearCache call removed an entry this module had stored,
\* and an entry of other code is in the store after it.
C12_Witness ==
    /\ last.op = "clearCache"
    /\ \E sk \in StorageKeys : <<sk, "item">> \in last.removed
    /\ \E sk \in StorageKeys : ~Namespaced(sk) /\ store[sk] # NoItem

\* ======================================================= the API layer
\* The API layer's steps leave the cache module's state alone: its calls are
\* taken on an empty cache, where every cachedFetch is a miss.
cacheVars == <<store, now, last, calls, lastDone>>

InitCache ==
    /\ store = EmptyStore
    /\ now = 0
    /\ last = NoCall
    /\ calls = [c \in CallIds |-> Idle]
    /\ lastDone = NoDone

\* ------------------------------------------------------------ the season rule
MaxN == 4                       \* getLastNSeasons(n) is called with n in 0..MaxN
Years == {2025, 2026}           \* new Date().getFullYear()
Months == 0..11                 \* new Date().getMonth(): 0 is January

\* getCurrentBaseballSeason with April counted as in season.
getCurrentBaseballSeason_AprilInSeason(year, month) ==
    IF month < 3 THEN year - 1 ELSE year

\* getCurrentBaseballSeason() on a date of the given year and month.
getCurrentBaseballSeason(year, month) ==
    IF month <= 3 THEN year - 1 ELSE year

\* The loop of getLastNSeasons: seasons after pushes i, i + 1, ..., n - 1.
RECURSIVE pushSeasons(_, _, _, _)
pushSeasons(seasons, currentSeason, i, n) ==
    IF i < n THEN pushSeasons(Append(seasons, currentSeason - i), currentSeason, i + 1, n)
    ELSE seasons

\* getLastNSeasons(n) on a date of the given year and month.
getLastNSeasons(n, year, month) ==
    pushSeasons(<<>>, getCurrentBaseballSeason(year, month), 0, n)

\* The date is any month of Years; a call reads it.
InitSeason ==
    /\ InitCache
    /\ app = NoApp
    /\ api \in [op : {"none"}, year : Years, month : Months, n : {0}, result : {<<>>}]

GetCurrentBaseballSeasonOp ==
    /\ api' = [api EXCEPT !.op = "getCurrentBaseballSeason", !.n = 0,
                          !.result = <<getCurrentBaseballSeason(api.year, api.month)>>]
    /\ UNCHANGED <<cacheVars, app>>

GetLastNSeasonsOp(n) ==
    /\ api' = [api EXCEPT !.op = "getLastNSeasons", !.n = n,
                          !.result = getLastNSeasons(n, api.year, api.month)]
    /\ UNCHANGED <<cacheVars, app>>

\* A month passes.
NextMonth ==
    /\ api.month < 11 \/ api.year + 1 \in Years
    /\ api' = [api EXCEPT !.op = "none", !.n = 0, !.result = <<>>,
                          !.month = IF api.month < 11 THEN api.month + 1 ELSE 0,
                          !.year = IF api.month < 11 THEN api.year ELSE api.year + 1]
    /\ UNCHANGED <<cacheVars, app>>

NextSeason ==
    \/ GetCurrentBaseballSeasonOp
    \/ \E n \in 0..MaxN : GetLastNSeasonsOp(n)
    \/ NextMonth

SpecSeason == InitSeason /\ [][NextSeason]_vars

\* C13: on every date getCurrentBaseballSeason returns the previous calendar
\* year in January through April and the calendar year otherwise, and
\* getLastNSeasons(n) returns exactly the n seasons current, current - 1, ...,
\* current - (n - 1), in that order.
C13_SeasonRule ==
    LET current == IF api.month \in {0, 1, 2, 3} THEN api.year - 1 ELSE api.year
    IN  /\ api.op = "getCurrentBaseballSeason" => api.result = <<current>>
        /\ api.op = "getLastNSeasons" =>
                /\ Len(api.result) = api.n
                /\ \A i \in 1..api.n : api.result[i] = current - (i - 1)

\* C13 witness: getLastNSeasons(4) in March 2026 returned 2025, 2024, 2023, 2022.
C13_Witness ==
    /\ api.op = "getLastNSeasons" /\ api.year = 2026 /\ api.month = 2 /\ api.n = 4
    /\ api.result = <<2025, 2024, 2023, 2022>>

\* ------------------------------------------------- the remote and its readers
\* A leader record as getSeasonLeaders returns it: player is the name,
\* personId is 0 when the remote gave none, statValue the parsed value.
Leader(player, personId, statValue) ==
    [player |-> player, personId |-> personId, statValue |-> statValue]

\* What the remote does with one request for a season's leaders: fetch()
\* rejects, response.json() rejects, the body lacks leagueLeaders[0].leaders,
\* a leader of the body lacks its person, or the body carries leaders.
Failure(kind) == [kind |-> kind, leaders |-> <<>>]
Body(leaders) == [kind |-> "ok", leaders |-> leaders]
Failures == {Failure("networkError"), Failure("malformedJson"),
             Failure("noContainer"), Failure("badLeader")}
Bodies == {Body(<<>>),
           Body(<<Leader("A", 7, 2)>>),
           Body(<<Leader("A", 0, 1)>>),
           Body(<<Leader("A", 8, 1)>>),
           Body(<<Leader("C", 0, 2)>>),
           Body(<<Leader("B", 8, 1), Leader("A", 7, 1)>>),
           Body(<<Leader("A", 0, 1), Leader("A", 7, 2)>>)}
Remotes == Failures \cup Bodies

\* A body given entry by entry: each entry with or without its person, and
\* the person with or without a fullName (Undefined in its place).
Undefined == "undefined"
RawLeader(person, fullName, id, value) ==
    [person |-> person, fullName |-> fullName, id |-> id, value |-> value]
RawBody(leaders) == [kind |-> "raw", leaders |-> leaders]
RawLeaders == {RawLeader(TRUE, "A", 7, 2), RawLeader(TRUE, Undefined, 8, 1),
               RawLeader(FALSE, Undefined, 0, 1)}
RawBodies == {RawBody(<<first, second>>) : first \in RawLeaders, second \in RawLeaders}
Names == {"A", "B", "C"}

\* How a promise settled.
Resolved(val) == [ret |-> "resolved", val |-> val]
Rejected(error) == [ret |-> "rejected", val |-> error]
Pending == [ret |-> "pending", val |-> <<>>]

\* cachedFetch(key, fetchFn) on a miss, fetchFn() having settled as p: a
\* rejection passes through (line 129), a result is stored and returned
\* (lines 130-132).
cachedFetchMiss(p) ==
    IF p.ret = "rejected" THEN Rejected(p.val) ELSE Resolved(p.val)

\* The try block of getSeasonLeaders' fetchFn: what it throws, or returns.
tryFetchLeaders(remote) ==
    IF remote.kind = "networkError" THEN [threw |-> "TypeError: Failed to fetch", val |-> <<>>]
    ELSE IF remote.kind = "malformedJson" THEN [threw |-> "SyntaxError", val |-> <<>>]
    ELSE IF remote.kind = "noContainer" THEN [threw |-> "none", val |-> <<>>]
    ELSE IF remote.kind = "badLeader" THEN [threw |-> "TypeError", val |-> <<>>]
    ELSE IF remote.kind = "raw"
    THEN (IF \E i \in 1..Len(remote.leaders) : ~remote.leaders[i].person
          THEN [threw |-> "TypeError", val |-> <<>>]
          ELSE [threw |-> "none",
                val |-> [i \in 1..Len(remote.leaders) |->
                            Leader(remote.leaders[i].fullName, remote.leaders[i].id,
                                   remote.leaders[i].value)]])
    ELSE [threw |-> "none", val |-> remote.leaders]

\* getSeasonLeaders without the catch of its fetchFn.
getSeasonLeaders_NoCatch(remote) ==
    LET r == tryFetchLeaders(remote)
    IN  cachedFetchMiss(IF r.threw # "none" THEN Rejected(r.threw) ELSE Resolved(r.val))

\* getSeasonLeaders(season, statType) for a valid statType, the remote
\* answering as given: the catch turns whatever was thrown into [].
getSeasonLeaders(remote) ==
    LET r == tryFetchLeaders(remote)
    IN  cachedFetchMiss(IF r.threw # "none" THEN Resolved(<<>>) ELSE Resolved(r.val))

\* Promise.all on promises settled: it rejects if one of them rejected, and
\* resolves with their values otherwise, in the order of the promises.
promiseAll(results) ==
    IF \E i \in 1..Len(results) : results[i].ret = "rejected"
    THEN Rejected((CHOOSE i \in 1..Len(results) : results[i].ret = "rejected"))
    ELSE Resolved([i \in 1..Len(results) |-> results[i].val])

\* --------------------------------------------------------------- the merge
\* playerMap is a Map: its entries in insertion order.
mapIndex(playerMap, name) ==
    IF \E k \in 1..Len(playerMap) : playerMap[k].name = name
    THEN CHOOSE k \in 1..Len(playerMap) : playerMap[k].name = name
    ELSE 0

\* The merge with the total of an existing player overwritten.
mergeLeader_Overwrites(playerMap, leader, season) ==
    LET k == mapIndex(playerMap, leader.player)
    IN  IF k # 0
        THEN [playerMap EXCEPT ![k] =
                [name |-> @.name,
                 id |-> IF @.id # 0 THEN @.id ELSE leader.personId,
                 totalStat |-> leader.statValue,
                 appearances |-> @.appearances + 1,
                 seasons |-> Append(@.seasons, season)]]
        ELSE Append(playerMap, [name |-> leader.player, id |-> leader.personId,
                                totalStat |-> leader.statValue, appearances |-> 1,
                                seasons |-> <<season>>])

\* The merge with the id of the latest record that carries one.
mergeLeader_LatestId(playerMap, leader, season) ==
    LET k == mapIndex(playerMap, leader.player)
    IN  IF k # 0
        THEN [playerMap EXCEPT ![k] =
                [name |-> @.name,
                 id |-> IF leader.personId # 0 THEN leader.personId ELSE @.id,
                 totalStat |-> @.totalStat + leader.statValue,
                 appearances |-> @.appearances + 1,
                 seasons |-> Append(@.seasons, season)]]
        ELSE Append(playerMap, [name |-> leader.player, id |-> leader.personId,
                                totalStat |-> leader.statValue, appearances |-> 1,
                                seasons |-> <<season>>])

\* The body of leaders.forEach (lines 594-609): one leader record of a season
\* is merged into playerMap.
mergeLeader(playerMap, leader, season) ==
    LET k == mapIndex(playerMap, leader.player)
    IN  IF k # 0
        THEN [playerMap EXCEPT ![k] =
                [name |-> @.name,
                 id |-> IF @.id # 0 THEN @.id ELSE leader.personId,
                 totalStat |-> @.totalStat + leader.statValue,
                 appearances |-> @.appearances + 1,
                 seasons |-> Append(@.seasons, season)]]
        ELSE Append(playerMap, [name |-> leader.player, id |-> leader.personId,
                                totalStat |-> leader.statValue, appearances |-> 1,
                                seasons |-> <<season>>])

\* The records allLeaders.forEach visits, in its order, each with its season.
RECURSIVE flatten(_, _, _)
flatten(allLeaders, seasons, idx) ==
    IF idx > Len(allLeaders) THEN <<>>
    ELSE [j \in 1..Len(allLeaders[idx]) |->
            [season |-> seasons[idx], leader |-> allLeaders[idx][j]]]
         \o flatten(allLeaders, seasons, idx + 1)

\* ---------------------------------------------------------------- the ranking
\* Array.prototype.filter(p => p.id).
filterWithId(players) == SelectSeq(players, LAMBDA p : p.id # 0)

\* x placed into a sequence sorted by (a, b) => b.totalStat - a.totalStat,
\* behind the elements it does not beat: the sort is stable.
RECURSIVE insertByTotal(_, _)
insertByTotal(sorted, x) ==
    IF sorted = <<>> THEN <<x>>
    ELSE IF Head(sorted).totalStat >= x.totalStat
         THEN <<Head(sorted)>> \o insertByTotal(Tail(sorted), x)
         ELSE <<x>> \o sorted

\* Array.prototype.sort((a, b) => b.totalStat - a.totalStat).
RECURSIVE sortByTotal(_)
sortByTotal(players) ==
    IF players = <<>> THEN <<>>
    ELSE insertByTotal(sortByTotal(SubSeq(players, 1, Len(players) - 1)),
                       players[Len(players)])

\* Array.prototype.slice(0, limit), limit a natural number.
slice(players, limit) ==
    SubSeq(players, 1, IF limit < Len(players) THEN limit ELSE Len(players))

\* The ranking with the limit applied before the players without an id are
\* dropped.
rank_SliceFirst(playerMap, limit) ==
    filterWithId(slice(sortByTotal(playerMap), limit))

\* Lines 613-617: Array.from(playerMap.values()).filter(...).sort(...).slice(...).
rank(playerMap, limit) ==
    slice(sortByTotal(filterWithId(playerMap)), limit)

\* ------------------------------------------------ calls over several seasons
MaxLimit == 2                   \* the limit argument ranges over 0..MaxLimit
SeasonCounts == {1, 2, 3}       \* the numbers of seasons a call asks for
Today == [year |-> 2026, month |-> 2]
NotAsked == [kind |-> "pending", leaders |-> <<>>]

\* The results array filled in the order the promises settle.
Collect_InCompletionOrder(results, idx, settled, order) ==
    [results EXCEPT ![Len(order) + 1] = settled]

\* Promise.all keeps the value of the promise at index idx at index idx,
\* whenever it settles.
Collect(results, idx, settled, order) ==
    [results EXCEPT ![idx] = settled]

Range(f) == {f[i] : i \in DOMAIN f}

\* A call over seasons begins: one getSeasonLeaders call per season is made,
\* all before any of them settles.
SeasonsCall(op, seasons, limit) ==
    [op |-> op, seasons |-> seasons, limit |-> limit, pc |-> "fetching",
     remote |-> [i \in 1..Len(seasons) |-> NotAsked],
     results |-> [i \in 1..Len(seasons) |-> Pending],
     order |-> <<>>, flat |-> <<>>, pos |-> 1, playerMap |-> <<>>,
     ret |-> "pending", val |-> <<>>]

\* getTopPlayersFromSeasons(numSeasons, limit, statType) is called.
GetTopPlayersCall(numSeasons, limit) ==
    /\ api.op = "none"
    /\ api' = SeasonsCall("getTopPlayersFromSeasons",
                          getLastNSeasons(numSeasons, Today.year, Today.month), limit)
    /\ UNCHANGED <<cacheVars, app>>

\* getMultipleSeasonLeaders(seasons, statType) is called.
GetMultipleCall(numSeasons) ==
    /\ api.op = "none"
    /\ api' = SeasonsCall("getMultipleSeasonLeaders",
                          getLastNSeasons(numSeasons, Today.year, Today.month), 0)
    /\ UNCHANGED <<cacheVars, app>>

\* The getSeasonLeaders call of the season at index idx settles, the remote
\* having answered as given. The calls settle in any order.
SeasonSettles(idx, remote) ==
    /\ api.op \in {"getTopPlayersFromSeasons", "getMultipleSeasonLeaders"}
    /\ api.pc = "fetching"
    /\ idx \in 1..Len(api.seasons) /\ idx \notin Range(api.order)
    /\ api' = [api EXCEPT !.remote[idx] = remote,
                          !.results = Collect(@, idx, getSeasonLeaders(remote), api.order),
                          !.order = Append(@, idx)]
    /\ UNCHANGED <<cacheVars, app>>

\* await Promise.all(leadersPromises) of getTopPlayersFromSeasons settles: a
\* rejection goes to the catch, which returns []; otherwise the merge begins.
TopAllSettled ==
    LET all == promiseAll(api.results)
    IN  /\ api.op = "getTopPlayersFromSeasons" /\ api.pc = "fetching"
        /\ Len(api.order) = Len(api.seasons)
        /\ api' = IF all.ret = "rejected"
                  THEN [api EXCEPT !.pc = "done",
                                   !.ret = cachedFetchMiss(Resolved(<<>>)).ret,
                                   !.val = cachedFetchMiss(Resolved(<<>>)).val]
                  ELSE [api EXCEPT !.pc = "merging",
                                   !.flat = flatten(all.val, api.seasons, 1)]
        /\ UNCHANGED <<cacheVars, app>>

\* One turn of the inner forEach.
MergeStep ==
    /\ api.op = "getTopPlayersFromSeasons" /\ api.pc = "merging"
    /\ api.pos <= Len(api.flat)
    /\ api' = [api EXCEPT !.playerMap = mergeLeader(@, api.flat[api.pos].leader,
                                                    api.flat[api.pos].season),
                          !.pos = @ + 1]
    /\ UNCHANGED <<cacheVars, app>>

\* The merge is over: the players are ranked and returned.
RankAndReturn ==
    LET p == cachedFetchMiss(Resolved(rank(api.playerMap, api.limit)))
    IN  /\ api.op = "getTopPlayersFromSeasons" /\ api.pc = "merging"
        /\ api.pos > Len(api.flat)
        /\ api' = [api EXCEPT !.pc = "done", !.ret = p.ret, !.val = p.val]
        /\ UNCHANGED <<cacheVars, app>>

\* Lines 564-569 of getMultipleSeasonLeaders: the seasons with leaders, each
\* with its first 16.
seasonResults(seasons, allLeaders) ==
    [season \in {seasons[i] : i \in {j \in 1..Len(seasons) : Len(allLeaders[j]) > 0}} |->
        slice(allLeaders[CHOOSE i \in 1..Len(seasons) : seasons[i] = season], 16)]

\* await Promise.all(leadersPromises) of getMultipleSeasonLeaders settles:
\* there is no try around it, so a rejection rejects the call.
MultipleAllSettled ==
    LET all == promiseAll(api.results)
    IN  /\ api.op = "getMultipleSeasonLeaders" /\ api.pc = "fetching"
        /\ Len(api.order) = Len(api.seasons)
        /\ api' = IF all.ret = "rejected"
                  THEN [api EXCEPT !.pc = "done", !.ret = "rejected", !.val = <<>>]
                  ELSE [api EXCEPT !.pc = "done", !.ret = "resolved",
                                   !.val = seasonResults(api.seasons, all.val)]
        /\ UNCHANGED <<cacheVars, app>>

\* ------------------------------------------------------- getPlayerTrajectory
\* What the remote does with the request for one season of a player: as for
\* the leaders, or a body whose first split lacks its stat, or one that
\* carries the season and the value.
Point(year, statValue) == [kind |-> "ok", year |-> year, statValue |-> statValue]
TrajectoryFailure(kind) == [kind |-> kind, year |-> 0, statValue |-> 0]
TrajectoryRemotes ==
    {TrajectoryFailure("networkError"), TrajectoryFailure("malformedJson"),
     TrajectoryFailure("noContainer"), TrajectoryFailure("noStat"),
     Point(2024, 2), Point(2025, 1)}
NoPoint == [year |-> 0, statValue |-> 0]
TrajectoryLengths == {0, 1, 2}     \* the numbers of seasons of a trajectory

\* The chain fetch(...).then(res => res.json()).then(data => ...) of one
\* season, before its catch.
trySeasonPoint(remote) ==
    IF remote.kind \in {"networkError", "malformedJson", "noStat"}
    THEN Rejected(remote.kind)
    ELSE IF remote.kind = "noContainer" THEN Resolved(NoPoint)
    ELSE Resolved([year |-> remote.year, statValue |-> remote.statValue])

\* One season's promise: .catch(() => null) turns a rejection into null.
seasonPoint(remote) ==
    IF trySeasonPoint(remote).ret = "rejected" THEN Resolved(NoPoint)
    ELSE trySeasonPoint(remote)

RECURSIVE insertByYear(_, _)
insertByYear(sorted, x) ==
    IF sorted = <<>> THEN <<x>>
    ELSE IF Head(sorted).year <= x.year
         THEN <<Head(sorted)>> \o insertByYear(Tail(sorted), x)
         ELSE <<x>> \o sorted

\* Array.prototype.sort((a, b) => a.year - b.year).
RECURSIVE sortByYear(_)
sortByYear(points) ==
    IF points = <<>> THEN <<>>
    ELSE insertByYear(sortByYear(SubSeq(points, 1, Len(points) - 1)), points[Len(points)])

\* getPlayerTrajectory without the catch of its fetchFn.
getPlayerTrajectory_NoCatch(validStat, remotes) ==
    LET all == promiseAll([i \in 1..Len(remotes) |-> seasonPoint(remotes[i])])
    IN  cachedFetchMiss(
            IF ~validStat THEN Rejected("TypeError")
            ELSE IF all.ret = "rejected" THEN Rejected(all.val)
            ELSE Resolved(sortByYear(SelectSeq(all.val, LAMBDA r : r # NoPoint))))

\* getPlayerTrajectory(playerId, seasons, statType), the remote answering the
\* request of season i as remotes[i]. With a statType that STAT_TYPES lacks,
\* stat.category throws inside the try.
getPlayerTrajectory(validStat, remotes) ==
    LET all == promiseAll([i \in 1..Len(remotes) |-> seasonPoint(remotes[i])])
    IN  cachedFetchMiss(
            IF ~validStat THEN Resolved(<<>>)
            ELSE IF all.ret = "rejected" THEN Resolved(<<>>)
            ELSE Resolved(sortByYear(SelectSeq(all.val, LAMBDA r : r # NoPoint))))

\* ------------------------------------------------------ getHistoricalRecords
StatTypes == {"homeRuns", "hits", "rbi", "stolenBases", "battingAverage"}
UnreliableStats == {"hits", "rbi", "stolenBases", "battingAverage",
                    "earnedRunAverage", "strikeouts", "wins", "saves", "whip"}
FallbackStats == {"homeRuns", "hits", "rbi", "stolenBases", "battingAverage",
                  "earnedRunAverage", "strikeouts", "wins", "saves", "whip"}

\* parseInt(s) of a string: the number its leading decimal digits write, NaN
\* when it starts with none.
NaN == -1
Digits == "0123456789"
IsDigit(c) == \E i \in 1..10 : SubSeq(Digits, i, i) = c
digit(c) == (CHOOSE i \in 1..10 : SubSeq(Digits, i, i) = c) - 1
RECURSIVE parseDigits(_, _, _)
parseDigits(s, i, acc) ==
    IF i > Len(s) \/ ~IsDigit(SubSeq(s, i, i)) THEN acc
    ELSE parseDigits(s, i + 1, acc * 10 + digit(SubSeq(s, i, i)))
parseInt(s) ==
    IF Len(s) = 0 \/ ~IsDigit(SubSeq(s, 1, 1)) THEN NaN ELSE parseDigits(s, 1, 0)

\* One entry of the leaders of the single-season records: the person's
\* fullName, the value and the season as the body writes them (strings; the
\* season "" when the entry has none).
HistoricalLeader(player, value, season) ==
    [player |-> player, value |-> value, season |-> season]
HistoricalPlayers == {"Aaron Judge", "Roger Maris", "Babe Ruth", "Mark McGwire"}
HistoricalLeaders ==
    {HistoricalLeader(player, value, season) :
        player \in HistoricalPlayers, value \in {"62", "61"},
        season \in {"", "1961", "1998", "2022"}}

\* What the remote does with the request for the single-season records: as
\* for the leaders, or a body whose leaders are the given ones; values are
\* the numbers their value strings write.
HistoricalBody(leaders) ==
    [kind |-> "ok", values |-> [i \in 1..Len(leaders) |-> parseInt(leaders[i].value)],
     leaders |-> leaders]
HistoricalFailure(kind) == [kind |-> kind, values |-> <<>>, leaders |-> <<>>]
Valued(value) == HistoricalLeader("Barry Bonds", value, "2001")
HistoricalRemotes ==
    {HistoricalFailure("networkError"), HistoricalFailure("malformedJson"),
     HistoricalFailure("noContainer"), HistoricalFailure("badLeader"),
     HistoricalBody(<<>>), HistoricalBody(<<Valued("73"), Valued("70")>>),
     HistoricalBody(<<Valued("175"), Valued("70")>>),
     HistoricalBody(<<Valued("250"), Valued("70")>>),
     HistoricalBody(<<Valued("301"), Valued("70")>>)}
\* Bodies of three leaders, for the records mapped from them.
RankedRemotes ==
    {HistoricalBody(<<first, second, third>>) :
        first \in {Valued("73"), HistoricalLeader("Aaron Judge", "62", "2022")},
        second \in HistoricalLeaders, third \in HistoricalLeaders}

\* The empty array [] in the place of records.
NoRecords == [source |-> "none", dataset |-> "", values |-> <<>>, records |-> <<>>]

\* getHistoricalRecordsFallback(statType): the literal records of statType,
\* those of homeRuns when fallbackData has none for it.
getHistoricalRecordsFallback(statType) ==
    [source |-> "fallback",
     dataset |-> IF statType \in FallbackStats THEN statType ELSE "homeRuns",
     values |-> <<>>, records |-> <<>>]

\* The year of a leader: parseInt of its season, null (NoYear) without one.
NoYear == 0
yearOf(leader) == IF leader.season = "" THEN NoYear ELSE parseInt(leader.season)

\* The classifier with the period rules tried before the named overrides.
status_PeriodFirst(index, statType, player, statValue, year) ==
    IF index = 0 THEN "All-Time Record"
    ELSE IF year \notin {NoYear, NaN} /\ year >= 1998 /\ year <= 2001
    THEN (IF index = 1 THEN "NL Record (Former)" ELSE "Active Era")
    ELSE IF year \notin {NoYear, NaN} /\ year >= 2020 THEN "Modern Era"
    ELSE IF statType = "homeRuns" /\ player = "Aaron Judge" /\ statValue = 62
    THEN "AL Record"
    ELSE IF statType = "homeRuns" /\ player = "Roger Maris" THEN "AL Record (Former)"
    ELSE IF player = "Babe Ruth" THEN "Historical Legend"
    ELSE "Historic Record"

\* The status of the record at index (0-based) of leaders.map, lines 780-795.
\* year is falsy when null, 0 or NaN.
status(index, statType, player, statValue, year) ==
    IF index = 0 THEN "All-Time Record"
    ELSE IF statType = "homeRuns" /\ player = "Aaron Judge" /\ statValue = 62
    THEN "AL Record"
    ELSE IF statType = "homeRuns" /\ player = "Roger Maris" THEN "AL Record (Former)"
    ELSE IF player = "Babe Ruth" THEN "Historical Legend"
    ELSE IF year \notin {NoYear, NaN} /\ year >= 1998 /\ year <= 2001
    THEN (IF index = 1 THEN "NL Record (Former)" ELSE "Active Era")
    ELSE IF year \notin {NoYear, NaN} /\ year >= 2020 THEN "Modern Era"
    ELSE "Historic Record"

\* leaders.map of lines 770-810: the record of each leader, in the body's
\* order, rank counting from 1. (parseFloat replaces parseInt for
\* battingAverage, which line 741 keeps from reaching the map.)
mapRecords(statType, leaders) ==
    [i \in 1..Len(leaders) |->
        LET year == yearOf(leaders[i])
            statValue == parseInt(leaders[i].value)
            player == leaders[i].player
        IN  [rank |-> i, player |-> player, statValue |-> statValue, year |-> year,
             status |-> status(i - 1, statType, player, statValue, year)]]

\* The check of lines 762-764 on the first value of the body.
unrealistic(statType, firstValue) ==
    \/ statType = "hits" /\ firstValue > 300
    \/ statType = "rbi" /\ firstValue > 200
    \/ statType = "stolenBases" /\ firstValue > 150

\* The try block of getHistoricalRecords' fetchFn: what it throws, or returns.
tryHistoricalRecords(statType, remote) ==
    IF statType \in UnreliableStats
    THEN [threw |-> "none", val |-> getHistoricalRecordsFallback(statType)]
    ELSE IF remote.kind = "networkError"
    THEN [threw |-> "TypeError: Failed to fetch", val |-> NoRecords]
    ELSE IF remote.kind = "malformedJson" THEN [threw |-> "SyntaxError", val |-> NoRecords]
    ELSE IF remote.kind = "noContainer"
    THEN [threw |-> "none", val |-> getHistoricalRecordsFallback(statType)]
    ELSE IF unrealistic(statType, IF remote.values = <<>> THEN 0 ELSE remote.values[1])
    THEN [threw |-> "none", val |-> getHistoricalRecordsFallback(statType)]
    ELSE IF remote.kind = "badLeader" THEN [threw |-> "TypeError", val |-> NoRecords]
    ELSE [threw |-> "none",
          val |-> [source |-> "remote", dataset |-> statType, values |-> remote.values,
                   records |-> mapRecords(statType, remote.leaders)]]

\* getHistoricalRecords whose catch returns [], as the other operations do.
getHistoricalRecords_CatchEmpty(statType, remote) ==
    LET r == tryHistoricalRecords(statType, remote)
    IN  IF statType \notin StatTypes THEN Resolved(NoRecords)
        ELSE cachedFetchMiss(IF r.threw # "none" THEN Resolved(NoRecords) ELSE Resolved(r.val))

\* getHistoricalRecords(statType), the remote answering as given.
getHistoricalRecords(statType, remote) ==
    LET r == tryHistoricalRecords(statType, remote)
    IN  IF statType \notin StatTypes THEN Resolved(NoRecords)
        ELSE cachedFetchMiss(IF r.threw # "none"
                             THEN Resolved(getHistoricalRecordsFallback(statType))
                             ELSE Resolved(r.val))

\* ----------------------------------------------------- getActiveCareerLeader
Max(S) == CHOOSE x \in S : \A y \in S : y <= x

\* topLeader.player.split(' ').pop(): what follows the last space.
lastName(player) ==
    LET spaces == {i \in 1..Len(player) : SubSeq(player, i, i) = " "}
    IN  IF spaces = {} THEN player ELSE SubSeq(player, Max(spaces) + 1, Len(player))

NoLeader == [player |-> "N/A", statValue |-> 0]

\* getActiveCareerLeader(statType), the remote answering the request for the
\* current season's leaders as given.
getActiveCareerLeader(remote) ==
    LET leaders == getSeasonLeaders(remote)
    IN  cachedFetchMiss(
            IF leaders.ret = "rejected" THEN Resolved(NoLeader)
            ELSE IF Len(leaders.val) = 0 THEN Resolved(NoLeader)
            ELSE Resolved([player |-> lastName(leaders.val[1].player),
                           statValue |-> leaders.val[1].statValue]))

\* --------------------------------------------------- calls of one operation
Done(op, arg, remote, p) ==
    [op |-> op, pc |-> "done", arg |-> arg, remote |-> remote, ret |-> p.ret, val |-> p.val]

GetSeasonLeadersOp(remote) ==
    /\ api.op = "none"
    /\ api' = Done("getSeasonLeaders", "homeRuns", remote, getSeasonLeaders(remote))
    /\ UNCHANGED <<cacheVars, app>>

GetPlayerTrajectoryOp(validStat, remotes) ==
    /\ api.op = "none"
    /\ api' = Done("getPlayerTrajectory", validStat, remotes,
                   getPlayerTrajectory(validStat, remotes))
    /\ UNCHANGED <<cacheVars, app>>

GetHistoricalRecordsOp(statType, remote) ==
    /\ api.op = "none"
    /\ api' = Done("getHistoricalRecords", statType, remote,
                   getHistoricalRecords(statType, remote))
    /\ UNCHANGED <<cacheVars, app>>

GetActiveCareerLeaderOp(remote) ==
    /\ api.op = "none"
    /\ api' = Done("getActiveCareerLeader", "homeRuns", remote,
                   getActiveCareerLeader(remote))
    /\ UNCHANGED <<cacheVars, app>>

InitApi ==
    /\ InitCache
    /\ api = NoApi
    /\ app = NoApp

NextApi ==
    \/ \E numSeasons \in SeasonCounts, limit \in 0..MaxLimit :
            GetTopPlayersCall(numSeasons, limit)
    \/ \E numSeasons \in SeasonCounts : GetMultipleCall(numSeasons)
    \/ \E idx \in SeasonCounts, remote \in Remotes : SeasonSettles(idx, remote)
    \/ TopAllSettled
    \/ MergeStep
    \/ RankAndReturn
    \/ MultipleAllSettled
    \/ \E remote \in Remotes \cup RawBodies : GetSeasonLeadersOp(remote)
    \/ \E validStat \in BOOLEAN, n \in TrajectoryLengths :
            \E remotes \in [1..n -> TrajectoryRemotes] :
                GetPlayerTrajectoryOp(validStat, remotes)
    \/ \E statType \in StatTypes \cup {"bogus"}, remote \in HistoricalRemotes :
            GetHistoricalRecordsOp(statType, remote)
    \/ \E remote \in Remotes \cup {Body(<<Leader("Aaron Judge", 7, 2)>>)} :
            GetActiveCareerLeaderOp(remote)

SpecApi == InitApi /\ [][NextApi]_vars

\* getHistoricalRecords alone, over the bodies of three leaders as well.
NextRecords ==
    \E statType \in StatTypes \cup {"bogus"}, remote \in HistoricalRemotes \cup RankedRemotes :
        GetHistoricalRecordsOp(statType, remote)

SpecRecords == InitApi /\ [][NextRecords]_vars

\* --------------------------------------- claims: getTopPlayersFromSeasons
IsTop == api.op = "getTopPlayersFromSeasons"
Merged == IsTop /\ (api.pc = "done" \/ (api.pc = "merging" /\ api.pos > Len(api.flat)))
Returned == IsTop /\ api.pc = "done"

\* The leader records the remote delivered for the season at index i.
Delivered(i) == IF api.remote[i].kind = "ok" THEN api.remote[i].leaders ELSE <<>>

\* The leader records of all queried seasons, in the order of the request.
AllRecords ==
    flatten([i \in 1..Len(api.seasons) |-> Delivered(i)], api.seasons, 1)
RecordsOf(name) == SelectSeq(AllRecords, LAMBDA r : r.leader.player = name)
Aggregate(name) == api.playerMap[mapIndex(api.playerMap, name)]

RECURSIVE SumStat(_)
SumStat(recs) ==
    IF recs = <<>> THEN 0 ELSE Head(recs).leader.statValue + SumStat(Tail(recs))

\* C14: after the merge, for every player name the aggregate's totalStat is
\* the sum of statValue over that name's leader records of all queried
\* seasons, appearances is the number of those records, and seasons holds
\* the season of each such record; a name without records has no aggregate.
C14_AggregateSums ==
    Merged =>
        \A name \in Names :
            LET recs == RecordsOf(name)
            IN  IF recs = <<>> THEN mapIndex(api.playerMap, name) = 0
                ELSE /\ Cardinality({k \in 1..Len(api.playerMap) :
                                        api.playerMap[k].name = name}) = 1
                     /\ Aggregate(name).totalStat = SumStat(recs)
                     /\ Aggregate(name).appearances = Len(recs)
                     /\ Aggregate(name).seasons = [k \in 1..Len(recs) |-> recs[k].season]

\* C14 witness: a name with records in three seasons was merged.
C14_Witness ==
    /\ Merged
    /\ \E name \in Names :
        /\ Len(RecordsOf(name)) >= 3
        /\ Cardinality(Range(Aggregate(name).seasons)) = 3
        /\ Aggregate(name).totalStat > 3

\* The first id among records, 0 if none carries one.
RECURSIVE FirstId(_)
FirstId(recs) ==
    IF recs = <<>> THEN 0
    ELSE IF Head(recs).leader.personId # 0 THEN Head(recs).leader.personId
    ELSE FirstId(Tail(recs))

\* C15: a merge step changes no id an aggregate holds, whatever id the record
\* merged carries, and gives an aggregate without an id the id of the record
\* merged into it; so after the merge an aggregate holds the first id among
\* its name's records.
C15_FirstIdKept ==
    /\ [][(IsTop /\ api.pc = "merging" /\ api'.pos = api.pos + 1) =>
            LET rec == api.flat[api.pos].leader
            IN  \A j \in 1..Len(api.playerMap) :
                    /\ api.playerMap[j].id # 0 =>
                            api'.playerMap[j].id = api.playerMap[j].id
                    /\ (api.playerMap[j].id = 0 /\ api.playerMap[j].name = rec.player) =>
                            api'.playerMap[j].id = rec.personId]_vars
    /\ [](Merged =>
            \A name \in Names :
                RecordsOf(name) # <<>> => Aggregate(name).id = FirstId(RecordsOf(name)))

\* C15 witness: a name's records carried no id, then 7, then 8, and its
\* aggregate holds 7.
C15_Witness ==
    /\ Merged
    /\ \E name \in Names :
        /\ [k \in 1..Len(RecordsOf(name)) |-> RecordsOf(name)[k].leader.personId]
                = <<0, 7, 8>>
        /\ Aggregate(name).id = 7

WithId == {k \in 1..Len(api.playerMap) : api.playerMap[k].id # 0}

\* C16: the players returned are aggregates of the merge, each once, in
\* non-increasing totalStat order, none without an id, at most limit of them,
\* and no aggregate with an id that was left out has a higher total than one
\* returned.
C16_RankedAndTruncated ==
    Returned =>
        /\ api.ret = "resolved"
        /\ \A i \in 1..Len(api.val) :
            /\ api.val[i].id # 0
            /\ \E k \in WithId : api.playerMap[k] = api.val[i]
            /\ \A j \in 1..Len(api.val) :
                /\ i < j => api.val[i].totalStat >= api.val[j].totalStat
                /\ i # j => api.val[i].name # api.val[j].name
        /\ Len(api.val) <= api.limit
        /\ Len(api.val) = (IF api.limit < Cardinality(WithId) THEN api.limit
                           ELSE Cardinality(WithId))
        /\ \A k \in WithId :
            (\A i \in 1..Len(api.val) : api.val[i] # api.playerMap[k]) =>
                \A i \in 1..Len(api.val) :
                    api.val[i].totalStat >= api.playerMap[k].totalStat

\* C16 witness: the limit cut off an aggregate with an id, and an aggregate
\* without an id was left out although its total is above the one returned.
C16_Witness ==
    /\ Returned /\ api.limit = 1 /\ Len(api.val) = 1
    /\ Cardinality(WithId) >= 2
    /\ \E k \in 1..Len(api.playerMap) :
        api.playerMap[k].id = 0 /\ api.playerMap[k].totalStat > api.val[1].totalStat

\* The merge of records, from an empty playerMap.
RECURSIVE MergeOf(_)
MergeOf(recs) ==
    IF recs = <<>> THEN <<>>
    ELSE mergeLeader(MergeOf(SubSeq(recs, 1, Len(recs) - 1)),
                     recs[Len(recs)].leader, recs[Len(recs)].season)

\* The indexes of the seasons whose fetch succeeded, in the order of the request.
Succeeded ==
    SelectSeq([i \in 1..Len(api.seasons) |-> i], LAMBDA i : api.remote[i].kind = "ok")

\* C17: whatever seasons' fetches fail, every season's fetch settles, the
\* call resolves, and what it returns is the merge and ranking
\* (getTopPlayersFromSeasons), or the per-season leaders
\* (getMultipleSeasonLeaders), of the seasons whose fetch succeeded alone.
C17_FailedSeasonContributesNothing ==
    /\ Returned =>
        /\ api.ret = "resolved"
        /\ Len(api.order) = Len(api.seasons)
        /\ api.val =
            rank(MergeOf(flatten([k \in 1..Len(Succeeded) |-> api.remote[Succeeded[k]].leaders],
                                 [k \in 1..Len(Succeeded) |-> api.seasons[Succeeded[k]]], 1)),
                 api.limit)
    /\ (api.op = "getMultipleSeasonLeaders" /\ api.pc = "done") =>
        /\ api.ret = "resolved"
        /\ Len(api.order) = Len(api.seasons)
        /\ DOMAIN api.val =
            {api.seasons[i] : i \in {j \in Range(Succeeded) : api.remote[j].leaders # <<>>}}
        /\ \A i \in Range(Succeeded) :
            api.remote[i].leaders # <<>> => api.val[api.seasons[i]] = api.remote[i].leaders

\* C17 witness: of three seasons the fetch of one failed on the network, and
\* the call returned players merged from the two others.
C17_Witness ==
    /\ Returned /\ Len(api.seasons) = 3
    /\ Len(Succeeded) = 2
    /\ \E i \in 1..3 : api.remote[i].kind = "networkError"
    /\ \A k \in 1..2 : api.remote[Succeeded[k]].leaders # <<>>
    /\ \E i \in 1..Len(api.val) : api.val[i].appearances = 2

\* C18: playerMap and the players returned depend on what the remote
\* delivered for each season and on the order of the request alone: they are
\* the merge in request order, whatever the order in which the fetches
\* settled.
C18_CompletionOrderIrrelevant ==
    /\ Merged => api.playerMap = MergeOf(AllRecords)
    /\ Returned => api.val = rank(MergeOf(AllRecords), api.limit)

\* C18 witness: the fetches settled in the reverse of the request order, the
\* first and the last season carrying different ids for one name.
C18_Witness ==
    /\ Returned /\ api.order = <<3, 2, 1>>
    /\ \E name \in Names :
        /\ Len(RecordsOf(name)) >= 2
        /\ RecordsOf(name)[1].leader.personId = 7
        /\ RecordsOf(name)[Len(RecordsOf(name))].leader.personId = 8
        /\ \E i \in 1..Len(api.val) : api.val[i].name = name /\ api.val[i].id = 7

\* ------------------------------------------------ claims: errors of the remote
\* C19: no call of getSeasonLeaders, getMultipleSeasonLeaders,
\* getTopPlayersFromSeasons, getPlayerTrajectory, getHistoricalRecords or
\* getActiveCareerLeader rejects, whatever the remote does: every call that
\* settles resolves with a value.
C19_NeverRejects ==
    api.op # "none" =>
        /\ api.ret # "rejected"
        /\ api.pc = "done" => api.ret = "resolved"

\* C19 witness: getMultipleSeasonLeaders, which has no catch of its own,
\* resolved although one fetch failed on the network and one body was
\* malformed.
C19_Witness ==
    /\ api.op = "getMultipleSeasonLeaders" /\ api.pc = "done" /\ api.ret = "resolved"
    /\ \E i, j \in 1..Len(api.seasons) :
        api.remote[i].kind = "networkError" /\ api.remote[j].kind = "malformedJson"

\* C20: getHistoricalRecords(stat) resolves with the literal fallback records
\* of stat whenever the remote call throws or rejects, the body lacks the
\* leaders, or the first value of the body is above the ceiling of stat
\* (hits 300, rbi 200, stolenBases 150).
C20_FallbackOnFailure ==
    (api.op = "getHistoricalRecords" /\ api.arg \in StatTypes) =>
        LET first == IF api.remote.values = <<>> THEN 0 ELSE api.remote.values[1]
            above == \/ api.arg = "hits" /\ first > 300
                     \/ api.arg = "rbi" /\ first > 200
                     \/ api.arg = "stolenBases" /\ first > 150
        IN  (\/ api.remote.kind \in {"networkError", "malformedJson", "noContainer"}
             \/ above)
            => /\ api.ret = "resolved"
               /\ api.val.source = "fallback"
               /\ api.val.dataset = api.arg

\* C20 witness: the request for the homeRuns records failed on the network
\* and the fallback records of homeRuns were returned.
C20_Witness ==
    /\ api.op = "getHistoricalRecords" /\ api.arg = "homeRuns"
    /\ api.remote.kind = "networkError"
    /\ api.val.source = "fallback" /\ api.val.dataset = "homeRuns"

\* ------------------------------------------- claims: the status classifier
\* C21: the status of a record that getHistoricalRecords maps from the body
\* is determined by (rank index, player, value, year), rules tried in fixed
\* order and the first match winning: index 0 is 'All-Time Record'; then the
\* named overrides (Aaron Judge with 62, Roger Maris, Babe Ruth) win over the
\* period rules (1998-2001, >= 2020); a record matching no rule is
\* 'Historic Record'.
C21_StatusByPriority ==
    (api.op = "getHistoricalRecords" /\ api.val.source = "remote") =>
        \A i \in 1..Len(api.val.records) :
            LET r == api.val.records[i]
                named == \/ r.player = "Aaron Judge" /\ r.statValue = 62
                         \/ r.player \in {"Roger Maris", "Babe Ruth"}
                inPeriod == r.year # NoYear /\ r.year >= 1998 /\ r.year <= 2001
                modern == r.year # NoYear /\ r.year >= 2020
            IN  /\ i = 1 => r.status = "All-Time Record"
                /\ (i > 1 /\ r.player = "Aaron Judge" /\ r.statValue = 62)
                        => r.status = "AL Record"
                /\ (i > 1 /\ r.player = "Roger Maris") => r.status = "AL Record (Former)"
                /\ (i > 1 /\ r.player = "Babe Ruth") => r.status = "Historical Legend"
                /\ (i > 1 /\ ~named /\ inPeriod)
                        => r.status = (IF i = 2 THEN "NL Record (Former)" ELSE "Active Era")
                /\ (i > 1 /\ ~named /\ ~inPeriod /\ modern) => r.status = "Modern Era"
                /\ (i > 1 /\ ~named /\ ~inPeriod /\ ~modern) => r.status = "Historic Record"
                /\ \A j \in 1..Len(api.val.records) :
                        LET q == api.val.records[j]
                        IN  (q.rank = r.rank /\ q.player = r.player
                             /\ q.statValue = r.statValue /\ q.year = r.year)
                                => q.status = r.status

\* C21 witness: below the first rank, Aaron Judge's 62 of 2022 is the
\* 'AL Record' and Roger Maris's record of a 1998 season the former one,
\* although both match a period rule.
C21_Witness ==
    /\ api.op = "getHistoricalRecords" /\ api.val.source = "remote"
    /\ Len(api.val.records) = 3
    /\ api.val.records[2].player = "Aaron Judge" /\ api.val.records[2].statValue = 62
    /\ api.val.records[2].year = 2022 /\ api.val.records[2].status = "AL Record"
    /\ api.val.records[3].player = "Roger Maris" /\ api.val.records[3].year = 1998
    /\ api.val.records[3].status = "AL Record (Former)"

\* ------------------------------------ claims: what a revalidation leaves
\* C22 as stated: whenever fetchFn() of a staleWhileRevalidate call resolves,
\* the fresh value is stored under the key with the given ttl and the time of
\* the resolution, whether or not it differs from the value read at the call,
\* and the next getCached(key) within ttl returns the fresh value.
C22_AsClaimed ==
    \A c \in CallIds :
        (IsSwr(c) /\ calls[c].outcome = "resolved") =>
            /\ lastDone.id = c =>
                    store[CacheKey(calls[c].key)] =
                        ItemString(calls[c].fresh, lastDone.at, calls[c].ttl)
            /\ \A b \in CallIds :
                    (IsSwr(b) /\ calls[b].follows = c /\ calls[b].within) =>
                        calls[b].cached = calls[c].fresh

\* C22, amended: whenever fetchFn() of a staleWhileRevalidate call resolves
\* and the store write of setCache succeeds, the fresh value is stored under
\* the key with the given ttl and the time of the resolution, whether or not
\* it differs from the value read at the call, and the next getCached(key)
\* within ttl returns JSON.parse(JSON.stringify(fresh value)).
C22_FreshValueStored ==
    \A c \in CallIds :
        (IsSwr(c) /\ calls[c].outcome = "resolved" /\ calls[c].error = "none") =>
            /\ lastDone.id = c =>
                    store[CacheKey(calls[c].key)] =
                        ItemString(calls[c].fresh, lastDone.at, calls[c].ttl)
            /\ \A b \in CallIds :
                    (IsSwr(b) /\ calls[b].follows = c /\ calls[b].within) =>
                        calls[b].cached = RoundTrip(calls[c].fresh)

\* C22 witness: the second call read, within ttl, what the first had stored,
\* its fetchFn() resolved later with an equal value (no onUpdate call), and
\* the entry now carries the time of that resolution.
C22_Witness ==
    /\ IsSwr(1) /\ calls[1].outcome = "resolved" /\ calls[1].error = "none"
    /\ IsSwr(2) /\ calls[2].follows = 1 /\ calls[2].within
    /\ calls[2].cached = RoundTrip(calls[1].fresh) /\ calls[2].cached # Null
    /\ calls[2].outcome = "resolved" /\ calls[2].error = "none"
    /\ calls[2].updates = 0
    /\ lastDone.id = 2 /\ lastDone.at > 0
    /\ store[CacheKey(calls[2].key)] = ItemString(calls[2].fresh, lastDone.at, calls[2].ttl)

\* ----------------------------------- claims: per-period normalization
\* C24: getSeasonLeaders drops each entry of the body that lacks the player's
\* name (no person, or no fullName) and keeps the other entries of the
\* period: no returned record lacks its player name, and the named entries
\* are all returned, in the body's order.
C24_AsClaimed ==
    (api.op = "getSeasonLeaders" /\ api.remote.kind = "raw") =>
        LET named == SelectSeq(api.remote.leaders,
                               LAMBDA l : l.person /\ l.fullName # Undefined)
        IN  /\ api.ret = "resolved"
            /\ \A i \in 1..Len(api.val) : api.val[i].player # Undefined
            /\ api.val = [i \in 1..Len(named) |->
                            Leader(named[i].fullName, named[i].id, named[i].value)]

\* ------------------------------------------------ claims: reads and the store
\* C25: getCached on an entry that has not expired leaves the store as it
\* was, and the timestamp and ttl of an entry change only in a setCache call
\* on its key.
C25_ReadLeavesStore ==
    [][/\ (last'.op = "getCached" /\ last'.before.kind = "item"
           /\ now - last'.before.timestamp <= last'.before.ttl) => store' = store
       /\ \A key \in Keys :
            LET before == store[CacheKey(key)]
                after == store'[CacheKey(key)]
            IN  (/\ before.kind = "item" /\ after.kind = "item"
                 /\ <<before.timestamp, before.ttl>> # <<after.timestamp, after.ttl>>)
                    => (last'.op = "setCache" /\ last'.key = key)]_vars

\* C25 witness: an entry was read after the time it was stored, within its
\* ttl; the read returned its data and the entry is as it was.
C25_Witness ==
    /\ last.op = "getCached" /\ last.before.kind = "item"
    /\ last.before.timestamp < now /\ now - last.before.timestamp <= last.before.ttl
    /\ last.data # Null
    /\ store[CacheKey(last.key)] = last.before

\* --------------------------------------------- claims: concurrent misses
\* Calls c and d are cachedFetch calls on one key.
SameKeyFetches(c, d) ==
    c # d /\ IsFetch(c) /\ IsFetch(d) /\ calls[c].key = calls[d].key

\* C28 as stated: two cachedFetch calls on an absent key that are both
\* pending have each called their fetchFn; each returns what its own fetchFn
\* resolved with; and when the second of them resolves, the cache holds its
\* value.
C28_AsClaimed ==
    \A c, d \in CallIds :
        SameKeyFetches(c, d) =>
            /\ (calls[c].pc = "pending" /\ calls[d].pc = "pending")
                    => (calls[c].invoked = 1 /\ calls[d].invoked = 1)
            /\ (calls[d].raced /\ calls[d].outcome = "resolved") =>
                    /\ calls[d].invoked = 1 /\ calls[c].invoked = 1
                    /\ calls[d].ret = "returned" /\ calls[d].retval = calls[d].fresh
                    /\ calls[c].ret = "returned" /\ calls[c].retval = calls[c].fresh
                    /\ lastDone.id = d =>
                            store[CacheKey(calls[d].key)] =
                                ItemString(calls[d].fresh, lastDone.at, calls[d].ttl)

\* C28, amended: as stated, the cache holding the value of the call that
\* resolved last when that call's store write succeeded.
C28_NoCoalescing ==
    \A c, d \in CallIds :
        SameKeyFetches(c, d) =>
            /\ (calls[c].pc = "pending" /\ calls[d].pc = "pending")
                    => (calls[c].invoked = 1 /\ calls[d].invoked = 1)
            /\ (calls[d].raced /\ calls[d].outcome = "resolved") =>
                    /\ calls[d].invoked = 1 /\ calls[c].invoked = 1
                    /\ calls[d].ret = "returned" /\ calls[d].retval = calls[d].fresh
                    /\ calls[c].ret = "returned" /\ calls[c].retval = calls[c].fresh
                    /\ (lastDone.id = d /\ calls[d].error = "none") =>
                            store[CacheKey(calls[d].key)] =
                                ItemString(calls[d].fresh, lastDone.at, calls[d].ttl)

\* C28 witness: two misses on one key overlapped, the first resolved and
\* stored its value, the second resolved with another value, and the cache
\* holds the second's.
C28_Witness ==
    \E c, d \in CallIds :
        /\ SameKeyFetches(c, d)
        /\ calls[c].outcome = "resolved" /\ calls[c].error = "none"
        /\ calls[d].raced /\ calls[d].outcome = "resolved" /\ calls[d].error = "none"
        /\ calls[c].fresh # calls[d].fresh /\ calls[c].fresh # Null
        /\ calls[c].retval = calls[c].fresh /\ calls[d].retval = calls[d].fresh
        /\ lastDone.id = d
        /\ store[CacheKey(calls[d].key)] =
                ItemString(calls[d].fresh, lastDone.at, calls[d].ttl)

\* ------------------------------------- App.jsx: the loadTrajectories effect
\* The state the effect of lines 64-107 reads and writes, and its runs.
\* activeTab, selectedStat: the App's state of those names; loaded: the stats
\* whose key trajectoriesLoaded holds; loads: the runs of loadTrajectories that
\* passed the test of line 67; effect: what the latest run of the effect did.
Tabs == {"historical", "seasons", "trends"}
AppStats == {"homeRuns", "hits"}
LoadIds == {1, 2}
batchSize == 5
\* topPlayers.length, at most the limit of 20 that line 71 passes.
TopCounts == {0, 4, 7}

\* A run of loadTrajectories. pc: "idle" (not begun), "top" (awaiting
\* getTopPlayersFromSeasons), "batch" (awaiting Promise.all of a batch) or
\* "done". n: topPlayers.length; i: the loop's index; inFlight: the
\* getPlayerTrajectory calls of the batch that have not settled; batches: the
\* batches begun; offTab: a call was started while activeTab was not 'trends'.
NoLoad == [pc |-> "idle", stat |-> "", n |-> 0, i |-> 0, inFlight |-> 0,
           batches |-> 0, offTab |-> FALSE]

Min(a, b) == IF a < b THEN a ELSE b

\* The test of line 67 with the tab left out.
shouldLoad_AnyTab(activeTab, loaded, stat) == stat \notin loaded

\* The test of line 67.
shouldLoad(activeTab, loaded, stat) == activeTab = "trends" /\ stat \notin loaded

InitTrends ==
    /\ InitCache
    /\ api = NoApi
    /\ app = [activeTab |-> "historical", selectedStat |-> "homeRuns", loaded |-> {},
              loads |-> [l \in LoadIds |-> NoLoad], effect |-> "none"]

\* The effect runs after a render with the given tab and stat: loadTrajectories
\* is called, and goes as far as its first await.
RunEffect(tab, stat) ==
    LET free == {l \in LoadIds : app.loads[l].pc = "idle"}
        next == CHOOSE l \in free : \A m \in free : l <= m
    IN  IF shouldLoad(tab, app.loaded, stat)
        THEN /\ free # {}
             /\ app' = [app EXCEPT !.activeTab = tab, !.selectedStat = stat,
                                   !.effect = "started",
                                   !.loads[next] = [NoLoad EXCEPT !.pc = "top", !.stat = stat,
                                                                  !.offTab = tab # "trends"]]
        ELSE app' = [app EXCEPT !.activeTab = tab, !.selectedStat = stat,
                                !.effect = IF tab # "trends" THEN "other tab" ELSE "loaded"]

\* The user clicks a tab (lines 199-211).
SetActiveTab(tab) ==
    /\ tab # app.activeTab
    /\ RunEffect(tab, app.selectedStat)
    /\ UNCHANGED <<cacheVars, api>>

\* The user selects a stat (lines 166, 183).
SetSelectedStat(stat) ==
    /\ stat # app.selectedStat
    /\ RunEffect(app.activeTab, stat)
    /\ UNCHANGED <<cacheVars, api>>

\* The loop of lines 78-96 of run l, topPlayers having n players, from index
\* i on: the next batch is begun (lines 79-86), or with none left the
\* trajectories are set and the stat is marked loaded (lines 98-99).
Advance(l, n, i) ==
    LET ld == app.loads[l]
    IN  IF i < n
        THEN [app EXCEPT !.loads[l] =
                [ld EXCEPT !.pc = "batch", !.n = n, !.i = i,
                           !.inFlight = Min(batchSize, n - i), !.batches = @ + 1,
                           !.offTab = @ \/ app.activeTab # "trends"]]
        ELSE [app EXCEPT !.loaded = @ \cup {ld.stat},
                         !.loads[l] = [ld EXCEPT !.pc = "done", !.n = n, !.i = i,
                                                 !.inFlight = 0]]

\* getTopPlayersFromSeasons of run l resolves with n players (it never
\* rejects: its fetchFn catches, mlbApi.js lines 620-623).
TopPlayersResolve(l, n) ==
    /\ app.loads[l].pc = "top"
    /\ app' = Advance(l, n, 0)
    /\ UNCHANGED <<cacheVars, api>>

\* One getPlayerTrajectory call of the batch of run l settles (it never
\* rejects); with the last of them Promise.all resolves and the loop goes on.
TrajectorySettles(l) ==
    /\ app.loads[l].pc = "batch" /\ app.loads[l].inFlight > 0
    /\ app' = IF app.loads[l].inFlight > 1
              THEN [app EXCEPT !.loads[l].inFlight = @ - 1]
              ELSE Advance(l, app.loads[l].n, app.loads[l].i + batchSize)
    /\ UNCHANGED <<cacheVars, api>>

NextTrends ==
    \/ \E tab \in Tabs : SetActiveTab(tab)
    \/ \E stat \in AppStats : SetSelectedStat(stat)
    \/ \E l \in LoadIds, n \in TopCounts : TopPlayersResolve(l, n)
    \/ \E l \in LoadIds : TrajectorySettles(l)

SpecTrends == InitTrends /\ [][NextTrends]_vars

\* ------------------------------------------- claims: the trajectory loads
\* The getPlayerTrajectory calls in flight.
InFlight == app.loads[1].inFlight + app.loads[2].inFlight

\* C23: the getPlayerTrajectory calls are issued in batches of at most 5, a
\* batch beginning only when every call of the batch before it has settled,
\* and at most 5 of the calls are in flight at any time.
C23_AsClaimed ==
    /\ \A l \in LoadIds : app.loads[l].inFlight <= batchSize
    /\ InFlight <= batchSize

LayerOps == {"getSeasonLeaders", "getHistoricalRecords"}
OuterKey == "k1"
InnerKey == "k2"

\* What the remote holds at time t (records carry statType, whose function
\* members JSON leaves out), and the literal fallback records.
RemoteData(t) == Obj(t + 1, TRUE)
FallbackData == Obj(0, TRUE)
FetchedAt(v) == v.a - 1
FromRemote(v) == v.t = "object" /\ v.a >= 1

\* The ttl each operation passes to cachedFetch (mlbApi.js lines 545, 815).
ttlOf(op) == IF op = "getSeasonLeaders" THEN DEFAULT_TTL ELSE 24 * DEFAULT_TTL

LayerRemotes(op) ==
    IF op = "getSeasonLeaders"
    THEN {Failure("networkError"), Failure("noContainer"), Body(<<Leader("A", 7, 2)>>)}
    ELSE {HistoricalFailure("networkError"), HistoricalFailure("noContainer"),
          HistoricalBody(<<Valued("73"), Valued("70")>>)}

\* The result an operation gives when all goes wrong: [], or the fallback.
degraded(op) == IF op = "getSeasonLeaders" THEN EmptyList ELSE FallbackData

\* fetchFn of the operation's cachedFetch settles at time t, the remote
\* answering as given: how, and with which value.
fetchFnSettle(op, remote, t) ==
    LET p == IF op = "getSeasonLeaders" THEN getSeasonLeaders(remote)
             ELSE getHistoricalRecords("homeRuns", remote)
    IN  [ret |-> p.ret,
         data |-> IF p.ret = "rejected" THEN Null
                  ELSE IF op = "getSeasonLeaders"
                  THEN (IF p.val = <<>> THEN EmptyList ELSE RemoteData(t))
                  ELSE (IF p.val.source = "remote" THEN RemoteData(t)
                        ELSE IF p.val.source = "fallback" THEN FallbackData
                        ELSE EmptyList)]

\* The step taken last. step: "direct" (the operation was called), "swr" (the
\* App's staleWhileRevalidate call was made) or "settle" (the remote request
\* settled); inner: the operation's entry before the step; requested: the
\* step issued a remote request; failed: the remote request failed or its
\* body lacked the leaders; ret, result: how the operation settled in the
\* step, if it did; error: what its setCache's setItem threw; returned: what
\* staleWhileRevalidate returned; updated: what onUpdate was called with.
NoStep == [step |-> "none", inner |-> NoItem, requested |-> FALSE, failed |-> FALSE,
           ret |-> "none", result |-> Null, error |-> "skipped",
           returned |-> Null, updates |-> 0, updated |-> Null]

\* The remote request in flight, if any: via "direct" or "swr", and for the
\* latter what getCached returned to staleWhileRevalidate.
NoRequest == [pc |-> "idle", via |-> "", cached |-> Null]

InitLayers ==
    /\ InitCache
    /\ api = NoApi
    /\ app \in [op : LayerOps, request : {NoRequest}, did : {NoStep}]

\* The operation is called, by a caller other than the App's
\* staleWhileRevalidate: its cachedFetch returns the entry or issues the
\* remote request.
DirectCall ==
    LET s == cachedFetchStart(store, InnerKey, now)
        d == [NoStep EXCEPT !.step = "direct", !.inner = store[CacheKey(InnerKey)]]
    IN  /\ app.request.pc = "idle"
        /\ store' = s.store
        /\ app' = IF s.invoked
                  THEN [app EXCEPT !.request = [pc |-> "pending", via |-> "direct",
                                                cached |-> Null],
                                   !.did = [d EXCEPT !.requested = TRUE]]
                  ELSE [app EXCEPT !.did = [d EXCEPT !.ret = "returned",
                                                     !.result = s.cached]]
        /\ UNCHANGED <<now, last, calls, lastDone, api>>

\* The App's staleWhileRevalidate call: the App's entry is read and returned,
\* and fetchFn, the operation, is called; on a hit of its cachedFetch the
\* then handler runs before any other step.
SwrCall(fault) ==
    LET g == staleWhileRevalidateStart(store, OuterKey, now)
        s == cachedFetchStart(g.store, InnerKey, now)
        r == staleWhileRevalidateSettle(s.store, OuterKey, DEFAULT_TTL, now, g.cached,
                                         "resolved", s.cached, fault)
        d == [NoStep EXCEPT !.step = "swr", !.inner = store[CacheKey(InnerKey)],
                            !.returned = g.retval]
    IN  /\ app.request.pc = "idle"
        /\ IF s.invoked
           THEN /\ fault = "none"
                /\ store' = s.store
                /\ app' = [app EXCEPT !.request = [pc |-> "pending", via |-> "swr",
                                                   cached |-> g.cached],
                                      !.did = [d EXCEPT !.requested = TRUE]]
           ELSE /\ store' = r.store
                /\ app' = [app EXCEPT !.did = [d EXCEPT !.ret = "returned",
                                                        !.result = s.cached,
                                                        !.updates = r.updates,
                                                        !.updated = r.updateArg]]
        /\ UNCHANGED <<now, last, calls, lastDone, api>>

\* The remote request settles: fetchFn of the operation settles, its
\* cachedFetch stores and returns the result, and for a request made by the
\* App's staleWhileRevalidate the then or catch handler runs.
RemoteSettles(remote, innerFault, outerFault) ==
    LET p == fetchFnSettle(app.op, remote, now)
        c == cachedFetchSettle(store, InnerKey, ttlOf(app.op), now, p.ret, p.data,
                               innerFault)
        r == staleWhileRevalidateSettle(c.store, OuterKey, DEFAULT_TTL, now,
                                         app.request.cached,
                                         IF c.ret = "returned" THEN "resolved" ELSE "rejected",
                                         c.retval, outerFault)
        d == [NoStep EXCEPT !.step = "settle", !.inner = store[CacheKey(InnerKey)],
                            !.failed = remote.kind # "ok",
                            !.ret = c.ret, !.result = c.retval, !.error = c.error]
    IN  /\ app.request.pc = "pending"
        /\ IF app.request.via = "direct"
           THEN /\ outerFault = "none"
                /\ store' = c.store
                /\ app' = [app EXCEPT !.request = NoRequest, !.did = d]
           ELSE /\ store' = r.store
                /\ app' = [app EXCEPT !.request = NoRequest,
                                      !.did = [d EXCEPT !.updates = r.updates,
                                                        !.updated = r.updateArg]]
        /\ UNCHANGED <<now, last, calls, lastDone, api>>

LayerTick ==
    /\ now < MaxTime
    /\ now' = now + 1
    /\ app' = [app EXCEPT !.did = NoStep]
    /\ UNCHANGED <<store, last, calls, lastDone, api>>

NextLayers ==
    \/ DirectCall
    \/ \E fault \in Faults : SwrCall(fault)
    \/ \E remote \in LayerRemotes(app.op), innerFault \in Faults, outerFault \in Faults :
            RemoteSettles(remote, innerFault, outerFault)
    \/ LayerTick

SpecLayers == InitLayers /\ [][NextLayers]_vars

\* ------------------------------------------------ claims: the layered caches
\* C30: a value the App receives from a cache entry with ttl t was obtained
\* from the remote at most t before: what staleWhileRevalidate returns from
\* the App's entry, and what the operation's cachedFetch returns from its own.
C30_AsClaimed ==
    /\ (app.did.step = "swr" /\ FromRemote(app.did.returned))
            => now - FetchedAt(app.did.returned) <= DEFAULT_TTL
    /\ (app.did.step \in {"direct", "swr"} /\ ~app.did.requested
        /\ FromRemote(app.did.result))
            => now - FetchedAt(app.did.result) <= ttlOf(app.op)

\* The operation's entry before the latest step held its degraded result and
\* had not expired.
DegradedCached ==
    /\ app.did.inner.kind = "item"
    /\ app.did.inner.data = JSONStringify(degraded(app.op))
    /\ now - app.did.inner.timestamp <= app.did.inner.ttl

\* C27 as stated: when the remote request of getSeasonLeaders fails or its
\* body lacks the leaders, [] is returned and stored under the operation's
\* key (the fallback records of getHistoricalRecords likewise, for 24 hours),
\* and until the ttl has passed a call of the operation returns the stored
\* result and issues no remote request.
C27_AsClaimed ==
    /\ (app.did.step = "settle" /\ app.did.failed) =>
            /\ app.did.ret = "returned" /\ app.did.result = degraded(app.op)
            /\ store[CacheKey(InnerKey)] = ItemString(degraded(app.op), now, ttlOf(app.op))
    /\ (app.did.step \in {"direct", "swr"} /\ DegradedCached) =>
            /\ ~app.did.requested
            /\ app.did.ret = "returned" /\ app.did.result = RoundTrip(degraded(app.op))

\* C27, amended: as stated, the degraded result being stored when the store
\* write of setCache succeeds.
C27_FailureCached ==
    /\ (app.did.step = "settle" /\ app.did.failed) =>
            /\ app.did.ret = "returned" /\ app.did.result = degraded(app.op)
            /\ app.did.error = "none" =>
                    store[CacheKey(InnerKey)] =
                        ItemString(degraded(app.op), now, ttlOf(app.op))
    /\ (app.did.step \in {"direct", "swr"} /\ DegradedCached) =>
            /\ ~app.did.requested
            /\ app.did.ret = "returned" /\ app.did.result = RoundTrip(degraded(app.op))

\* C27 witness: getSeasonLeaders, called after the time at which [] was
\* stored for a failed request and within the ttl, returned [] and issued no
\* remote request.
C27_Witness ==
    /\ app.op = "getSeasonLeaders" /\ app.did.step = "direct" /\ DegradedCached
    /\ app.did.inner.timestamp < now
    /\ ~app.did.requested /\ app.did.result = EmptyList

\* ------------------------------------------ App.jsx: the fetchData effect
\* The effect of lines 24-61: on mount and on every change of selectedStat,
\* three staleWhileRevalidate calls, whose return values and onUpdate calls
\* set historicalRecords, seasonLeaders and activeCareerLeader.
Slots == {"historical", "leaders", "career"}
FetchIds == {1, 2}

\* The key of each call (lines 32, 37, 42).
slotKey(slot, stat) ==
    IF slot = "historical" THEN "initial_historical_" \o stat
    ELSE IF slot = "leaders" THEN "initial_leaders_" \o stat
    ELSE "initial_career_leader"
AppStorageKeys == {CacheKey(slotKey(slot, stat)) : slot \in Slots, stat \in AppStats}

\* What each fetchFn resolves with: the records or leaders of the stat it
\* was called for (they carry statType, with its function members); the
\* career leader, which getActiveCareerLeader() computes for homeRuns.
StatCode(stat) == IF stat = "homeRuns" THEN 1 ELSE 2
dataOf(slot, stat) ==
    IF slot = "career" THEN Obj(StatCode("homeRuns"), FALSE) ELSE Obj(StatCode(stat), TRUE)
\* The stat whose data a value of the App's state is.
StatOf(v) ==
    IF v.t = "object" /\ v.a = StatCode("homeRuns") THEN "homeRuns"
    ELSE IF v.t = "object" /\ v.a = StatCode("hits") THEN "hits"
    ELSE "none"
EmptyObject == [t |-> "object", a |-> 0, f |-> FALSE]     \* the object {}

\* A run of fetchData. pending: the calls whose fetchFn() has not settled;
\* cached: what getCached returned to each call.
NoFetch == [pc |-> "idle", stat |-> "", pending |-> {}, cached |-> [slot \in Slots |-> Null]]

\* fetchData of run f for stat, on store st and App state a, as far as the
\* statements after its await (the three promises are resolved by then):
\* the keys are read in the order of the calls, every fetchFn is called, and
\* each value read that is not null is set (lines 49-51).
fetchData(a, st, f, stat) ==
    LET h == staleWhileRevalidateStart(st, slotKey("historical", stat), now)
        l == staleWhileRevalidateStart(h.store, slotKey("leaders", stat), now)
        c == staleWhileRevalidateStart(l.store, slotKey("career", stat), now)
    IN  [store |-> c.store,
         app |-> [a EXCEPT
            !.selectedStat = stat,
            !.historicalRecords = IF h.retval # Null THEN h.retval ELSE @,
            !.seasonLeaders = IF l.retval # Null THEN l.retval ELSE @,
            !.activeCareerLeader = IF c.retval # Null THEN c.retval ELSE @,
            !.loading = FALSE,
            !.runs[f] = [pc |-> "run", stat |-> stat, pending |-> Slots,
                         cached |-> [slot \in Slots |->
                                        IF slot = "historical" THEN h.cached
                                        ELSE IF slot = "leaders" THEN l.cached
                                        ELSE c.cached]]]]

\* The state of lines 10-20 before the mount's effect has run.
Unmounted ==
    [selectedStat |-> "homeRuns", historicalRecords |-> EmptyList,
     seasonLeaders |-> EmptyObject, activeCareerLeader |-> Null, loading |-> TRUE,
     runs |-> [f \in FetchIds |-> NoFetch]]

\* After the mount: the effect has run once, on an empty localStorage.
InitFetchData ==
    LET m == fetchData(Unmounted, [sk \in AppStorageKeys |-> NoItem], 1, "homeRuns")
    IN  /\ now = 0
        /\ store = m.store
        /\ app = m.app
        /\ last = NoCall
        /\ calls = [c \in CallIds |-> Idle]
        /\ lastDone = NoDone
        /\ api = NoApi

\* The user selects another stat (lines 166, 183): the effect runs again.
SelectStat(stat) ==
    LET free == {f \in FetchIds : app.runs[f].pc = "idle"}
        m == fetchData(app, store, CHOOSE f \in free : \A g \in free : f <= g, stat)
    IN  /\ stat # app.selectedStat
        /\ free # {}
        /\ store' = m.store
        /\ app' = m.app
        /\ UNCHANGED <<now, last, calls, lastDone, api>>

\* fetchFn() of one call of run f resolves (none of the three operations
\* rejects): the then handler stores the data and calls onUpdate, which sets
\* the App's state, when it differs from what the call had read.
FetchFnResolves(f, slot, fault) ==
    LET run == app.runs[f]
        r == staleWhileRevalidateSettle(store, slotKey(slot, run.stat), DEFAULT_TTL, now,
                                         run.cached[slot], "resolved",
                                         dataOf(slot, run.stat), fault)
        done == [app EXCEPT !.runs[f].pending = @ \ {slot}]
    IN  /\ slot \in run.pending
        /\ store' = r.store
        /\ app' = IF r.updates = 0 THEN done
                  ELSE IF slot = "historical"
                  THEN [done EXCEPT !.historicalRecords = r.updateArg]
                  ELSE IF slot = "leaders" THEN [done EXCEPT !.seasonLeaders = r.updateArg]
                  ELSE [done EXCEPT !.activeCareerLeader = r.updateArg]
        /\ UNCHANGED <<now, last, calls, lastDone, api>>

NextFetchData ==
    \/ \E stat \in AppStats : SelectStat(stat)
    \/ \E f \in FetchIds, slot \in Slots, fault \in Faults : FetchFnResolves(f, slot, fault)
    \/ Tick

SpecFetchData == InitFetchData /\ [][NextFetchData]_vars

\* ------------------------------------------ claims: the selected stat's data
\* C29: after the user has changed the selected stat, once every request in
\* flight has settled, historicalRecords and seasonLeaders hold data of the
\* stat selected now.
C29_AsClaimed ==
    (/\ app.runs[2].pc # "idle"
     /\ \A f \in FetchIds : app.runs[f].pending = {})
        => /\ StatOf(app.historicalRecords) = app.selectedStat
           /\ StatOf(app.seasonLeaders) = app.selectedStat
====
